---- MODULE Spec2Model ----
(***************************************************************************)
(* A model of qborsh: the Borsh type descriptors of qborsh/types, their    *)
(* encode/decode entry points, and the byte Buffer they write into.        *)
(*                                                                         *)
(* Python values are tagged pairs <<t, v>>:                                *)
(*   int   v = [neg, mag]: sign and little-endian magnitude bytes, so that *)
(*         128-bit numbers keep their exact value                          *)
(*   bool  v = TRUE/FALSE        none  v = 0                               *)
(*   float v = the number of halves (1.0 is 2, 0.5 is 1)                   *)
(*   str   v = sequence of code points                                     *)
(*   bytes v = sequence of 0..255                                          *)
(*   list, tuple  v = sequence of values                                   *)
(*   set   v = sequence of values in the set's iteration order             *)
(*   dict  v = sequence of <<key, value>> in the dict's iteration order    *)
(* A call runs to completion (the library is synchronous); its effect on   *)
(* the buffers is computed on a heap of Buffer objects threaded through    *)
(* serialize/deserialize, with st.err holding the exception raised.        *)
(***************************************************************************)
EXTENDS Integers, Sequences, FiniteSets, TLC

VARIABLES
    reuse,              \* QBORSH_GLOBAL_BUFFER as read at import (constants.py:29)
    GLOBAL_BUFFER,      \* the shared top-level Buffer (NoBuffer when not reuse)
    GLOBAL_BUFFER_SUB,  \* the shared scratch Buffer   (NoBuffer when not reuse)
    cls,                \* the declared descriptor the process calls encode/decode on
    SINGLETON,          \* cls._SINGLETON: NoInstance until the first call
    call,               \* the last encode/decode call and its outcome (with the
                        \* Buffer objects it worked on, as it left them)
    prev,               \* the call before it
    threads,            \* the calls of two threads of one process, each at a
                        \* position between two of its Buffer operations
    heap,               \* the Buffer objects those threads created
    singletons          \* _SINGLETON of the classes those threads call

vars == <<reuse, GLOBAL_BUFFER, GLOBAL_BUFFER_SUB, cls, SINGLETON, call, prev,
          threads, heap, singletons>>

(***************************************************************************)
(* Bounds of the model.                                                    *)
(***************************************************************************)
\* QBORSH_BUFFER_SIZE of the modelled process (the default is 512); small so
\* that ordinary payloads make the buffers grow.
BUFFER_SIZE == 8

(***************************************************************************)
(* Python values.                                                          *)
(***************************************************************************)
V(t, v) == <<t, v>>
TypeOf(x) == x[1]
ValueOf(x) == x[2]
PyNone == V("none", 0)
PyBool(b) == V("bool", b)
PyStr(s) == V("str", s)
PyBytes(s) == V("bytes", s)
PyList(s) == V("list", s)
PyTuple(s) == V("tuple", s)
PySet(s) == V("set", s)
PyDict(s) == V("dict", s)
PyFloat(halves) == V("float", halves)

Zeros(n) == [i \in 1..n |-> 0]
Repeat(x, n) == [i \in 1..n |-> x]

RECURSIVE StripZeros(_)
StripZeros(s) ==
    IF s = <<>> THEN s
    ELSE IF s[Len(s)] = 0 THEN StripZeros(SubSeq(s, 1, Len(s) - 1)) ELSE s

RECURSIVE NatBytes(_)
NatBytes(n) == IF n = 0 THEN <<>> ELSE <<n % 256>> \o NatBytes(n \div 256)

\* The Python int n (|n| < 2^31), and the int with a given magnitude.
PyInt(n) == V("int", [neg |-> n < 0, mag |-> NatBytes(IF n < 0 THEN 0 - n ELSE n)])
PyBig(neg, mag) == V("int", [neg |-> neg /\ StripZeros(mag) # <<>>, mag |-> StripZeros(mag)])

PadTo(s, n) == s \o Zeros(n - Len(s))

\* 2^(8n) - x for the n-byte little-endian x: invert every byte, add one.
RECURSIVE Negate(_, _)
Negate(s, c) ==
    IF s = <<>> THEN <<>>
    ELSE LET x == (255 - Head(s)) + c
         IN  <<x % 256>> \o Negate(Tail(s), x \div 256)

\* x + 1 and x - 1 on magnitudes (little-endian, any length).
RECURSIVE MagInc(_)
MagInc(s) ==
    IF s = <<>> THEN <<1>>
    ELSE IF Head(s) = 255 THEN <<0>> \o MagInc(Tail(s)) ELSE <<Head(s) + 1>> \o Tail(s)

RECURSIVE MagDec(_)
MagDec(s) ==
    IF Head(s) = 0 THEN <<255>> \o MagDec(Tail(s)) ELSE StripZeros(<<Head(s) - 1>> \o Tail(s))

PySucc(x) ==
    IF ValueOf(x).neg THEN PyBig(TRUE, MagDec(ValueOf(x).mag)) ELSE PyBig(FALSE, MagInc(ValueOf(x).mag))
PyPred(x) ==
    IF ValueOf(x).neg \/ ValueOf(x).mag = <<>> THEN PyBig(TRUE, MagInc(ValueOf(x).mag))
    ELSE PyBig(FALSE, MagDec(ValueOf(x).mag))

\* Python's hash/eq classes: unhashable values cannot be set members or dict keys.
Hashable(x) == TypeOf(x) \notin {"list", "set", "dict"}

\* int(x) for the values Python treats as integers (bool is a subclass of int).
AsInt(x) == IF TypeOf(x) = "bool" THEN PyInt(IF ValueOf(x) THEN 1 ELSE 0) ELSE x

\* The int a float is equal to, if any (PyNone otherwise).
FloatAsInt(x) == IF ValueOf(x) % 2 = 0 THEN PyInt(ValueOf(x) \div 2) ELSE PyNone

\* Python's ==: True == 1 == 1.0, containers by content, set and dict
\* regardless of order.
RECURSIVE PyEq(_, _)
PyEq(a, b) ==
    CASE TypeOf(a) \in {"int", "bool"} /\ TypeOf(b) \in {"int", "bool"} -> AsInt(a) = AsInt(b)
      [] TypeOf(a) = "float" /\ TypeOf(b) \in {"int", "bool"} -> FloatAsInt(a) = AsInt(b)
      [] TypeOf(a) \in {"int", "bool"} /\ TypeOf(b) = "float" -> AsInt(a) = FloatAsInt(b)
      [] TypeOf(a) # TypeOf(b) -> FALSE
      [] TypeOf(a) \in {"list", "tuple"} ->
            /\ Len(ValueOf(a)) = Len(ValueOf(b))
            /\ \A i \in 1..Len(ValueOf(a)) : PyEq(ValueOf(a)[i], ValueOf(b)[i])
      [] TypeOf(a) = "set" ->
            /\ \A i \in 1..Len(ValueOf(a)) : \E j \in 1..Len(ValueOf(b)) : PyEq(ValueOf(a)[i], ValueOf(b)[j])
            /\ \A j \in 1..Len(ValueOf(b)) : \E i \in 1..Len(ValueOf(a)) : PyEq(ValueOf(a)[i], ValueOf(b)[j])
      [] TypeOf(a) = "dict" ->
            /\ \A i \in 1..Len(ValueOf(a)) : \E j \in 1..Len(ValueOf(b)) :
                   PyEq(ValueOf(a)[i][1], ValueOf(b)[j][1]) /\ PyEq(ValueOf(a)[i][2], ValueOf(b)[j][2])
            /\ \A j \in 1..Len(ValueOf(b)) : \E i \in 1..Len(ValueOf(a)) :
                   PyEq(ValueOf(a)[i][1], ValueOf(b)[j][1]) /\ PyEq(ValueOf(a)[i][2], ValueOf(b)[j][2])
      [] OTHER -> a = b

\* d[k] = v on a dict value: replaces the value of an equal key, else appends.
DictSet(d, k, v) ==
    IF \E i \in 1..Len(d) : PyEq(d[i][1], k)
    THEN [i \in 1..Len(d) |-> IF PyEq(d[i][1], k) THEN <<d[i][1], v>> ELSE d[i]]
    ELSE Append(d, <<k, v>>)

\* s.add(x) on a set value.
SetAdd(s, x) == IF \E i \in 1..Len(s) : PyEq(s[i], x) THEN s ELSE Append(s, x)

DictHas(d, k) == \E i \in 1..Len(d) : PyEq(d[i][1], k)
DictGet(d, k) == d[CHOOSE i \in 1..Len(d) : PyEq(d[i][1], k)][2]
DictKeys(d) == {d[i][1] : i \in 1..Len(d)}

(***************************************************************************)
(* Text codecs used at the boundary.                                       *)
(***************************************************************************)
\* str.encode("utf-8") of one code point.
Utf8Char(c) ==
    IF c < 128 THEN <<c>>
    ELSE IF c < 2048 THEN <<192 + (c \div 64), 128 + (c % 64)>>
    ELSE IF c < 65536 THEN <<224 + (c \div 4096), 128 + ((c \div 64) % 64), 128 + (c % 64)>>
    ELSE <<240 + (c \div 262144), 128 + ((c \div 4096) % 64),
           128 + ((c \div 64) % 64), 128 + (c % 64)>>

RECURSIVE Utf8Encode(_)
Utf8Encode(s) == IF s = <<>> THEN <<>> ELSE Utf8Char(Head(s)) \o Utf8Encode(Tail(s))

IsCont(b) == b >= 128 /\ b < 192

\* bytes.decode("utf-8"): <<ok, code points>>; ok is FALSE on malformed input.
RECURSIVE Utf8Decode(_)
Utf8Decode(b) ==
    IF b = <<>> THEN <<TRUE, <<>>>>
    ELSE LET h == Head(b)
             n == IF h < 128 THEN 1 ELSE IF h >= 194 /\ h < 224 THEN 2
                  ELSE IF h >= 224 /\ h < 240 THEN 3
                  ELSE IF h >= 240 /\ h < 245 THEN 4 ELSE 0
         IN  IF n = 0 \/ Len(b) < n \/ \E i \in 2..n : ~IsCont(b[i])
             THEN <<FALSE, <<>>>>
             ELSE LET c == CASE n = 1 -> h
                             [] n = 2 -> (h - 192) * 64 + (b[2] - 128)
                             [] n = 3 -> (h - 224) * 4096 + (b[2] - 128) * 64 + (b[3] - 128)
                             [] OTHER -> (h - 240) * 262144 + (b[2] - 128) * 4096
                                          + (b[3] - 128) * 64 + (b[4] - 128)
                      shortest == CASE n = 1 -> TRUE
                                    [] n = 2 -> c >= 128
                                    [] n = 3 -> c >= 2048 /\ ~(c >= 55296 /\ c < 57344)
                                    [] OTHER -> c >= 65536 /\ c < 1114112
                      rest == Utf8Decode(SubSeq(b, n + 1, Len(b)))
                  IN  IF ~shortest \/ ~rest[1] THEN <<FALSE, <<>>>>
                      ELSE <<TRUE, <<c>> \o rest[2]>>

\* The base58 alphabet, as code points of
\* "123456789ABCDEFGHJKLMNPQRSTUVWXYZabcdefghijkmnopqrstuvwxyz".
B58Alphabet ==
    <<49, 50, 51, 52, 53, 54, 55, 56, 57,
      65, 66, 67, 68, 69, 70, 71, 72, 74, 75, 76, 77, 78, 80, 81, 82, 83, 84, 85,
      86, 87, 88, 89, 90,
      97, 98, 99, 100, 101, 102, 103, 104, 105, 106, 107, 109, 110, 111, 112, 113,
      114, 115, 116, 117, 118, 119, 120, 121, 122>>

B58Index(c) == IF \E i \in 1..58 : B58Alphabet[i] = c
               THEN (CHOOSE i \in 1..58 : B58Alphabet[i] = c) - 1 ELSE 0 - 1

RECURSIVE StripLeading(_)
StripLeading(s) == IF s # <<>> /\ Head(s) = 0 THEN StripLeading(Tail(s)) ELSE s

RECURSIVE LeadingZeros(_)
LeadingZeros(s) == IF s # <<>> /\ Head(s) = 0 THEN 1 + LeadingZeros(Tail(s)) ELSE 0

\* The digits (most significant first) of a big-endian number in another
\* base.  The conversion works on pairs of digits (bases from^2 and to^2) by
\* repeated long division by to^2, each division giving the next pair.
Pairs(d, base) ==
    LET p == IF Len(d) % 2 = 1 THEN <<0>> \o d ELSE d
    IN  [i \in 1..(Len(p) \div 2) |-> p[2 * i - 1] * base + p[2 * i]]

Unpair(q, base) ==
    [i \in 1..(2 * Len(q)) |-> IF i % 2 = 1 THEN q[(i + 1) \div 2] \div base
                                ELSE q[i \div 2] % base]

Rebase(digits, from, to) ==
    LET Div[x \in Seq(Nat) \X Nat \X Seq(Nat)] ==     \* <<quotient, rem, digits left>>
            IF x[3] = <<>> THEN <<x[1], x[2]>>
            ELSE Div[<<Append(x[1], (x[2] * from * from + Head(x[3])) \div (to * to)),
                       (x[2] * from * from + Head(x[3])) % (to * to), Tail(x[3])>>]
        Conv[x \in Seq(Nat) \X Seq(Nat)] ==           \* <<number left, digits found>>
            IF StripLeading(x[1]) = <<>> THEN x[2]
            ELSE Conv[<<Div[<<<<>>, 0, StripLeading(x[1])>>][1],
                        <<Div[<<<<>>, 0, StripLeading(x[1])>>][2]>> \o x[2]>>]
    IN  StripLeading(Unpair(Conv[<<Pairs(digits, from), <<>>>>], to))

\* base58.encode(bytes) -> code points; a leading zero byte becomes a leading "1".
Base58Encode(b) ==
    LET digits == Rebase(b, 256, 58)
    IN  Repeat(B58Alphabet[1], LeadingZeros(b))
        \o [i \in 1..Len(digits) |-> B58Alphabet[digits[i] + 1]]

\* base58.decode(text) -> <<ok, bytes>>; ok is FALSE on a character outside the alphabet.
Base58Decode(s) ==
    IF \E i \in 1..Len(s) : B58Index(s[i]) < 0 THEN <<FALSE, <<>>>>
    ELSE LET digits == [i \in 1..Len(s) |-> B58Index(s[i])]
         IN  <<TRUE, Zeros(LeadingZeros(digits)) \o Rebase(digits, 58, 256)>>

(***************************************************************************)
(* The native Buffer (qborsh.csrc), after the documented contract of its   *)
(* operations.  A Buffer is [data, cap, offset, freed]: the committed      *)
(* bytes (size = Len(data)), the capacity of its storage, the read cursor, *)
(* and whether free() has released it.  Range validation is on             *)
(* (QBORSH_VALIDATE's default, constants.py:42).                           *)
(*                                                                         *)
(* st = [heap, err, val, global]: the Buffer objects of a call, by         *)
(* identity (1 is GLOBAL_BUFFER, 2 is GLOBAL_BUFFER_SUB, later ones are    *)
(* created by the call); the exception raised, if any; the value last      *)
(* returned by a read or deserialize; whether the global buffers exist.    *)
(***************************************************************************)
NoErr == "none"
NoBuffer == [data |-> <<>>, cap |-> 0, offset |-> 0, freed |-> TRUE]

Raise(st, e) == IF st.err # NoErr THEN st ELSE [st EXCEPT !.err = e]
Return(st, v) == IF st.err # NoErr THEN st ELSE [st EXCEPT !.val = v]

\* Buffer(capacity): the new object is the last of the heap.
BufferNew(st, capacity) ==
    IF st.err # NoErr THEN st
    ELSE [st EXCEPT !.heap = Append(@, [data |-> <<>>, cap |-> capacity,
                                        offset |-> 0, freed |-> FALSE])]
Newest(st) == Len(st.heap)

BufferFree(st, b) ==
    IF st.err # NoErr THEN st ELSE [st EXCEPT !.heap[b].freed = TRUE]

BufferReset(st, b) ==
    IF st.err # NoErr THEN st
    ELSE [st EXCEPT !.heap[b].data = <<>>, !.heap[b].offset = 0]

BufferResetOffset(st, b) ==
    IF st.err # NoErr THEN st ELSE [st EXCEPT !.heap[b].offset = 0]

\* Growth: at least doubles, or to the exact size needed.
Grown(cap, need) == IF need <= cap THEN cap ELSE IF 2 * cap >= need THEN 2 * cap ELSE need

write_fixed_array(st, b, bs) ==
    IF st.err # NoErr THEN st
    ELSE LET buf == st.heap[b]
         IN  [st EXCEPT !.heap[b].data = buf.data \o bs,
                        !.heap[b].cap = Grown(buf.cap, Len(buf.data) + Len(bs))]

read_fixed_array(st, b, n) ==
    IF st.err # NoErr THEN st
    ELSE LET buf == st.heap[b]
         IN  IF Len(buf.data) - buf.offset < n THEN Raise(st, "TruncatedInputError")
             ELSE [st EXCEPT !.heap[b].offset = buf.offset + n,
                             !.val = PyBytes(SubSeq(buf.data, buf.offset + 1, buf.offset + n))]

FitsUnsigned(x, n) == ~x.neg /\ Len(x.mag) <= n
FitsSigned(x, n) ==
    /\ Len(x.mag) <= n
    /\ LET m == PadTo(x.mag, n)
       IN  \/ m[n] < 128
           \/ x.neg /\ m[n] = 128 /\ \A i \in 1..(n - 1) : m[i] = 0

\* write_u8 .. write_u128, write_i8 .. write_i128.
write_int(st, b, type, bits, value) ==
    IF st.err # NoErr THEN st
    ELSE IF TypeOf(value) \notin {"int", "bool"} THEN Raise(st, "TypeError")
    ELSE LET x == ValueOf(AsInt(value))
             n == bits \div 8
             fits == IF type = "u" THEN FitsUnsigned(x, n) ELSE FitsSigned(x, n)
         IN  IF ~fits THEN Raise(st, "RangeError")
             ELSE write_fixed_array(st, b, IF x.neg THEN Negate(PadTo(x.mag, n), 1)
                                                     ELSE PadTo(x.mag, n))

\* read_u8 .. read_u128, read_i8 .. read_i128.
read_int(st, b, type, bits) ==
    LET n == bits \div 8
        s1 == read_fixed_array(st, b, n)
    IN  IF s1.err # NoErr THEN s1
        ELSE LET raw == ValueOf(s1.val)
             IN  IF type = "i" /\ raw[n] >= 128
                 THEN Return(s1, PyBig(TRUE, Negate(raw, 1)))
                 ELSE Return(s1, PyBig(FALSE, raw))

write_bool(st, b, value) == write_fixed_array(st, b, <<IF value THEN 1 ELSE 0>>)

read_bool(st, b) ==
    LET s1 == read_fixed_array(st, b, 1)
    IN  IF s1.err # NoErr THEN s1 ELSE Return(s1, PyBool(ValueOf(s1.val)[1] # 0))

\* A length or count as written by write_u32(len(..)).
write_u32(st, b, n) == write_fixed_array(st, b, PadTo(NatBytes(n), 4))

\* A count at least 2^31 exceeds every buffer of the model; it is read as HugeLen.
HugeLen == 2147483647
U32Nat(raw) ==
    IF raw[4] >= 128 THEN HugeLen
    ELSE raw[1] + 256 * raw[2] + 65536 * raw[3] + 16777216 * raw[4]

read_u32(st, b) ==
    LET s1 == read_fixed_array(st, b, 4)
    IN  IF s1.err # NoErr THEN s1 ELSE [s1 EXCEPT !.val = U32Nat(ValueOf(s1.val))]

write_vec(st, b, bs) == write_fixed_array(write_u32(st, b, Len(bs)), b, bs)

read_vec(st, b) ==
    LET s1 == read_u32(st, b)
    IN  IF s1.err # NoErr THEN s1 ELSE read_fixed_array(s1, b, s1.val)

\* Unsigned lexicographic order of byte strings.
LexLeq(a, b) ==
    LET differ == {i \in 1..Len(a) : i > Len(b) \/ a[i] # b[i]}
        first == CHOOSE i \in differ : \A j \in differ : i <= j
    IN  differ = {} \/ (first <= Len(b) /\ a[first] < b[first])

\* The byte strings of a set, in ascending order.
RECURSIVE Sorted(_)
Sorted(S) ==
    IF S = {} THEN <<>>
    ELSE LET m == CHOOSE x \in S : \A y \in S : LexLeq(x, y)
         IN  <<m>> \o Sorted(S \ {m})

RECURSIVE WriteVecs(_, _, _)
WriteVecs(st, b, seq) ==
    IF seq = <<>> THEN st ELSE WriteVecs(write_vec(st, b, Head(seq)), b, Tail(seq))

\* write_hashset(set of bytes): the count, then the entries in canonical
\* order, each as a length-prefixed byte string (read_hashset cuts them back
\* out without knowing the element type).
write_hashset(st, b, S) ==
    WriteVecs(write_u32(st, b, Cardinality(S)), b, Sorted(S))

\* write_hashmap(dict of bytes -> bytes), a function on its key byte strings.
write_hashmap(st, b, D) ==
    LET keys == Sorted(DOMAIN D)
        RECURSIVE Flat(_)
        Flat(ks) == IF ks = <<>> THEN <<>> ELSE <<Head(ks), D[Head(ks)]>> \o Flat(Tail(ks))
    IN  WriteVecs(write_u32(st, b, Len(keys)), b, Flat(keys))

\* n length-prefixed byte strings, in wire order, in st.val.
RECURSIVE ReadVecs(_, _, _, _)
ReadVecs(st, b, n, acc) ==
    IF st.err # NoErr THEN st
    ELSE IF n = 0 THEN [st EXCEPT !.val = acc]
    ELSE LET s1 == read_vec(st, b)
         IN  IF s1.err # NoErr THEN s1 ELSE ReadVecs(s1, b, n - 1, Append(acc, ValueOf(s1.val)))

\* read_hashset(): the raw entries (st.val: a sequence of byte strings, in
\* wire order, duplicates collapsed).
Dedup(seq) ==
    LET RECURSIVE D(_, _)
        D(s, acc) == IF s = <<>> THEN acc
                     ELSE D(Tail(s), IF \E i \in 1..Len(acc) : acc[i] = Head(s)
                                     THEN acc ELSE Append(acc, Head(s)))
    IN  D(seq, <<>>)

read_hashset(st, b) ==
    LET s1 == read_u32(st, b)
        s2 == IF s1.err # NoErr THEN s1 ELSE ReadVecs(s1, b, s1.val, <<>>)
    IN  IF s2.err # NoErr THEN s2 ELSE [s2 EXCEPT !.val = Dedup(s2.val)]

\* read_hashmap(): the raw <<key bytes, value bytes>> pairs in wire order; a
\* repeated key keeps its place and takes the later value.
RawPairs(flat) ==
    LET RECURSIVE P(_, _)
        P(s, acc) ==
            IF s = <<>> THEN acc
            ELSE LET k == s[1]
                     v == s[2]
                 IN  P(SubSeq(s, 3, Len(s)),
                       IF \E i \in 1..Len(acc) : acc[i][1] = k
                       THEN [i \in 1..Len(acc) |-> IF acc[i][1] = k THEN <<k, v>> ELSE acc[i]]
                       ELSE Append(acc, <<k, v>>))
    IN  P(flat, <<>>)

read_hashmap(st, b) ==
    LET s1 == read_u32(st, b)
        s2 == IF s1.err # NoErr THEN s1
              ELSE IF s1.val = HugeLen THEN Raise(s1, "TruncatedInputError")
              ELSE ReadVecs(s1, b, 2 * s1.val, <<>>)
    IN  IF s2.err # NoErr THEN s2 ELSE [s2 EXCEPT !.val = RawPairs(s2.val)]

(***************************************************************************)
(* Type descriptors (qborsh/types).  A descriptor instance is a record     *)
(* with its kind k and its attributes.                                     *)
(***************************************************************************)
Numeric(type, bits) == [k |-> "Numeric", type |-> type, bits |-> bits]
U8 == Numeric("u", 8)
U16 == Numeric("u", 16)
U32 == Numeric("u", 32)
U64 == Numeric("u", 64)
U128 == Numeric("u", 128)
I8 == Numeric("i", 8)
I16 == Numeric("i", 16)
I32 == Numeric("i", 32)
I64 == Numeric("i", 64)
I128 == Numeric("i", 128)
Bool == [k |-> "Bool"]
String == [k |-> "String"]
Bytes == [k |-> "Bytes"]
PubKey == [k |-> "PubKey"]
Optional(element) == [k |-> "Optional", element |-> element]
Set(element_type) == [k |-> "Set", element_type |-> element_type]
Vector(element) == [k |-> "Vector", element |-> element]
Array(element, size) == [k |-> "Array", element |-> element, size |-> size]
Map(key_type, value_type) == [k |-> "Map", key_type |-> key_type, value_type |-> value_type]

\* A Schema instance: the ordered (name, type) pairs of __borsh_fields__ and
\* the flags of __init__ (dotdict only wraps the decoded dict and is left out).
Schema(fields, validate, exact_size) ==
    [k |-> "Schema", fields |-> fields, validate |-> validate, exact_size |-> exact_size]

\* sizeof() returning None.
SizeNone == 0 - 1

RECURSIVE sizeof(_)
\* (variant) Unknown as soon as one field is, whatever exact_size says.
SchemaSizeof_Strict(self) ==
    IF \E i \in 1..Len(self.fields) : sizeof(self.fields[i][2]) = SizeNone THEN SizeNone
    ELSE LET RECURSIVE Sum(_)
             Sum(fs) == IF fs = <<>> THEN 0 ELSE sizeof(Head(fs)[2]) + Sum(Tail(fs))
         IN  Sum(self.fields)

SchemaSizeof(self) ==
    LET RECURSIVE Sum(_, _)
        Sum(fs, size) ==
            IF fs = <<>> THEN size
            ELSE LET field_size == sizeof(Head(fs)[2])
                 IN  IF field_size = SizeNone
                     THEN IF self.exact_size THEN SizeNone ELSE Sum(Tail(fs), size)
                     ELSE Sum(Tail(fs), size + field_size)
    IN  Sum(self.fields, 0)

\* (variant) The element's size, whatever the count.
ArraySizeof_NoCount(self) == sizeof(self.element)

ArraySizeof(self) ==
    LET element_size == sizeof(self.element)
    IN  IF element_size = SizeNone THEN SizeNone ELSE element_size * self.size

PUBKEY_SIZE == 32

sizeof(self) ==
    CASE self.k = "Numeric" -> self.bits \div 8
      [] self.k = "Bool" -> 1
      [] self.k = "PubKey" -> PUBKEY_SIZE
      [] self.k = "Padding" -> self.element_size
      [] self.k = "Array" -> ArraySizeof(self)
      [] self.k = "Schema" -> SchemaSizeof(self)
      [] OTHER -> SizeNone

\* Padding(element): __init__ keeps element.sizeof() (it raises ValueError when
\* that is None, so no such instance exists).
Padding(element) == [k |-> "Padding", element |-> element, element_size |-> sizeof(element)]

(***************************************************************************)
(* serialize(buf, value): st with the bytes written to Buffer b, or with   *)
(* st.err set.                                                             *)
(***************************************************************************)
RECURSIVE Serialize(_, _, _, _)

\* (variant) The writer picked by width alone, as if every type were unsigned.
NumericSerialize_Unsigned(self, st, b, value) == write_int(st, b, "u", self.bits, value)

NumericSerialize(self, st, b, value) == write_int(st, b, self.type, self.bits, value)

BoolSerialize(self, st, b, value) ==
    IF st.err # NoErr THEN st
    ELSE IF ~(TypeOf(value) = "bool" \/ PyEq(value, PyInt(0)) \/ PyEq(value, PyInt(1)))
    THEN Raise(st, "TypeError")
    ELSE write_bool(st, b, PyEq(value, PyInt(1)))

StringSerialize(self, st, b, value) ==
    IF st.err # NoErr THEN st
    ELSE IF TypeOf(value) # "str" THEN Raise(st, "TypeError")
    ELSE write_vec(st, b, Utf8Encode(ValueOf(value)))

BytesSerialize(self, st, b, value) ==
    IF st.err # NoErr THEN st
    ELSE IF TypeOf(value) # "bytes" THEN Raise(st, "TypeError")
    ELSE write_vec(st, b, ValueOf(value))

OptionalSerialize(self, st, b, value) ==
    IF st.err # NoErr THEN st
    ELSE IF value = PyNone THEN write_bool(st, b, FALSE)
    ELSE Serialize(self.element, write_bool(st, b, TRUE), b, value)

\* The temporary buffer of Set and Map: GLOBAL_BUFFER_SUB after reset(), or a
\* new Buffer(size); ScratchOf is that buffer, in the state Scratch returned;
\* Release is the free() of a buffer that is no global one.
\* (variant) No Buffer of its own: the newest Buffer of the process, reset.
Scratch_Reuse(st, size) == BufferReset(st, Newest(st))

Scratch(st, size) == IF st.global THEN BufferReset(st, 2) ELSE BufferNew(st, size)
ScratchOf(st) == IF st.global THEN 2 ELSE Newest(st)
Release(st, b) == IF st.global THEN st ELSE BufferFree(st, b)

\* One value serialized into the temporary buffer; its bytes, taken before
\* the buffer is released, are in st.val.
TmpSerialize(type, st, obj) ==
    LET s1 == Scratch(st, BUFFER_SIZE)
        Taken(s2, tmp_buf) == [Release(s2, tmp_buf) EXCEPT !.val = s2.heap[tmp_buf].data]
    IN  Taken(Serialize(type, s1, ScratchOf(s1), obj), ScratchOf(s1))

RECURSIVE SetSerializeLoop(_, _, _, _)
SetSerializeLoop(self, st, elements, temp_set) ==
    IF st.err # NoErr \/ elements = <<>> THEN [st |-> st, acc |-> temp_set]
    ELSE LET Add(s1) == SetSerializeLoop(self, s1, Tail(elements), temp_set \cup {s1.val})
         IN  Add(TmpSerialize(self.element_type, st, Head(elements)))

SetSerialize(self, st, b, value) ==
    IF st.err # NoErr THEN st
    ELSE IF TypeOf(value) # "set" THEN Raise(st, "TypeError")
    ELSE LET r == SetSerializeLoop(self, st, ValueOf(value), {})
         IN  write_hashset(r.st, b, r.acc)

RECURSIVE SerializeAll(_, _, _, _)
SerializeAll(element, st, b, elems) ==
    IF st.err # NoErr \/ elems = <<>> THEN st
    ELSE SerializeAll(element, Serialize(element, st, b, Head(elems)), b, Tail(elems))

VectorSerialize(self, st, b, value) ==
    IF st.err # NoErr THEN st
    ELSE IF TypeOf(value) # "list" THEN Raise(st, "TypeError")
    ELSE SerializeAll(self.element, write_u32(st, b, Len(ValueOf(value))), b, ValueOf(value))

\* (variant) Without the length check.
ArraySerialize_AnyLength(self, st, b, value) ==
    IF st.err # NoErr THEN st
    ELSE IF TypeOf(value) # "list" THEN Raise(st, "TypeError")
    ELSE SerializeAll(self.element, st, b, ValueOf(value))

ArraySerialize(self, st, b, value) ==
    IF st.err # NoErr THEN st
    ELSE IF TypeOf(value) # "list" THEN Raise(st, "TypeError")
    ELSE IF Len(ValueOf(value)) # self.size THEN Raise(st, "ValueError")
    ELSE SerializeAll(self.element, st, b, ValueOf(value))

EmptyDict == [x \in {} |-> <<>>]

\* (variant) The first value written under a key is kept.
RECURSIVE MapSerializeLoop_First(_, _, _, _)
MapSerializeLoop_First(self, st, items, temp_dict) ==
    IF st.err # NoErr \/ items = <<>> THEN [st |-> st, acc |-> temp_dict]
    ELSE LET key_obj == Head(items)[1]
             val_obj == Head(items)[2]
             Put(s1, s2) ==
                 MapSerializeLoop_First(self, s2, Tail(items), temp_dict @@ (s1.val :> s2.val))
             Value(s1) == Put(s1, TmpSerialize(self.value_type, s1, val_obj))
         IN  Value(TmpSerialize(self.key_type, st, key_obj))

RECURSIVE MapSerializeLoop(_, _, _, _)
MapSerializeLoop(self, st, items, temp_dict) ==
    IF st.err # NoErr \/ items = <<>> THEN [st |-> st, acc |-> temp_dict]
    ELSE LET key_obj == Head(items)[1]
             val_obj == Head(items)[2]
             Put(s1, s2) ==
                 MapSerializeLoop(self, s2, Tail(items), (s1.val :> s2.val) @@ temp_dict)
             Value(s1) == Put(s1, TmpSerialize(self.value_type, s1, val_obj))
         IN  Value(TmpSerialize(self.key_type, st, key_obj))

MapSerialize(self, st, b, value) ==
    IF st.err # NoErr THEN st
    ELSE IF TypeOf(value) # "dict" THEN Raise(st, "TypeError")
    ELSE LET r == MapSerializeLoop(self, st, ValueOf(value), EmptyDict)
         IN  IF r.st.err # NoErr THEN r.st ELSE write_hashmap(r.st, b, r.acc)

\* (variant) Without the length check.
PubKeySerialize_AnyLength(self, st, b, value) ==
    IF st.err # NoErr THEN st
    ELSE IF TypeOf(value) \notin {"bytes", "str"} THEN Raise(st, "TypeError")
    ELSE LET dec == Base58Decode(ValueOf(value))
             raw_bytes == IF TypeOf(value) = "bytes" THEN ValueOf(value) ELSE dec[2]
         IN  IF TypeOf(value) = "str" /\ ~dec[1] THEN Raise(st, "ValueError")
             ELSE write_fixed_array(st, b, raw_bytes)

PubKeySerialize(self, st, b, value) ==
    IF st.err # NoErr THEN st
    ELSE IF TypeOf(value) \notin {"bytes", "str"} THEN Raise(st, "TypeError")
    ELSE LET dec == Base58Decode(ValueOf(value))
             raw_bytes == IF TypeOf(value) = "bytes" THEN ValueOf(value) ELSE dec[2]
         IN  IF TypeOf(value) = "str" /\ ~dec[1] THEN Raise(st, "ValueError")
             ELSE IF Len(raw_bytes) # PUBKEY_SIZE THEN Raise(st, "ValueError")
             ELSE write_fixed_array(st, b, raw_bytes)

\* (variant) The value written through the padded type.
PaddingSerialize_Value(self, st, b, value) == Serialize(self.element, st, b, value)

PaddingSerialize(self, st, b, value) == write_fixed_array(st, b, Zeros(self.element_size))

\* The strict-mode check of Schema.serialize: the error it raises, or NoErr.
SchemaValidate(self, data) ==
    IF TypeOf(data) # "dict" THEN "AttributeError"
    ELSE LET schema_keys == {PyStr(self.fields[i][1]) : i \in 1..Len(self.fields)}
             data_keys == DictKeys(ValueOf(data))
             missing_keys == schema_keys \ data_keys
             extra_keys == data_keys \ schema_keys
         IN  IF missing_keys # {} THEN "ValueError: Missing keys"
             ELSE IF extra_keys # {} THEN "ValueError: Extra keys"
             ELSE NoErr

RECURSIVE SchemaSerializeFields(_, _, _, _)
\* (variant) data.get(field_name): a missing field serialized as None.
SchemaSerializeFields_Get(fields, st, b, data) ==
    IF st.err # NoErr \/ fields = <<>> THEN st
    ELSE LET field_name == Head(fields)[1]
             field_type == Head(fields)[2]
         IN  IF TypeOf(data) # "dict" THEN Raise(st, "TypeError")
             ELSE SchemaSerializeFields(Tail(fields),
                      Serialize(field_type, st, b,
                                IF DictHas(ValueOf(data), PyStr(field_name))
                                THEN DictGet(ValueOf(data), PyStr(field_name))
                                ELSE PyNone), b, data)

SchemaSerializeFields(fields, st, b, data) ==
    IF st.err # NoErr \/ fields = <<>> THEN st
    ELSE LET field_name == Head(fields)[1]
             field_type == Head(fields)[2]
         IN  IF TypeOf(data) # "dict" THEN Raise(st, "TypeError")
             ELSE IF ~DictHas(ValueOf(data), PyStr(field_name)) THEN Raise(st, "KeyError")
             ELSE SchemaSerializeFields(Tail(fields),
                      Serialize(field_type, st, b, DictGet(ValueOf(data), PyStr(field_name))), b, data)

\* (variant) The fields taken in the order of the mapping's keys.
SchemaSerialize_DataOrder(self, st, b, data) ==
    LET RECURSIVE InDataOrder(_)
        InDataOrder(items) ==
            IF items = <<>> THEN <<>>
            ELSE SelectSeq(self.fields, LAMBDA f : PyStr(f[1]) = Head(items)[1])
                 \o InDataOrder(Tail(items))
    IN  IF st.err # NoErr THEN st
        ELSE IF self.validate /\ SchemaValidate(self, data) # NoErr
        THEN Raise(st, SchemaValidate(self, data))
        ELSE IF TypeOf(data) # "dict" THEN Raise(st, "TypeError")
        ELSE IF \E i \in 1..Len(self.fields) : ~DictHas(ValueOf(data), PyStr(self.fields[i][1]))
        THEN Raise(st, "KeyError")
        ELSE SchemaSerializeFields(InDataOrder(ValueOf(data)), st, b, data)

SchemaSerialize(self, st, b, data) ==
    IF st.err # NoErr THEN st
    ELSE IF self.validate /\ SchemaValidate(self, data) # NoErr
    THEN Raise(st, SchemaValidate(self, data))
    ELSE SchemaSerializeFields(self.fields, st, b, data)

Serialize(self, st, b, value) ==
    CASE self.k = "Numeric" -> NumericSerialize(self, st, b, value)
      [] self.k = "Bool" -> BoolSerialize(self, st, b, value)
      [] self.k = "String" -> StringSerialize(self, st, b, value)
      [] self.k = "Bytes" -> BytesSerialize(self, st, b, value)
      [] self.k = "Optional" -> OptionalSerialize(self, st, b, value)
      [] self.k = "Set" -> SetSerialize(self, st, b, value)
      [] self.k = "Vector" -> VectorSerialize(self, st, b, value)
      [] self.k = "Array" -> ArraySerialize(self, st, b, value)
      [] self.k = "Map" -> MapSerialize(self, st, b, value)
      [] self.k = "PubKey" -> PubKeySerialize(self, st, b, value)
      [] self.k = "Padding" -> PaddingSerialize(self, st, b, value)
      [] self.k = "Schema" -> SchemaSerialize(self, st, b, value)

(***************************************************************************)
(* deserialize(buf): st with the value read from Buffer b in st.val, or    *)
(* with st.err set.                                                        *)
(***************************************************************************)
RECURSIVE Deserialize(_, _, _)

NumericDeserialize(self, st, b) == read_int(st, b, self.type, self.bits)

BoolDeserialize(self, st, b) == read_bool(st, b)

StringDeserialize(self, st, b) ==
    LET s1 == read_vec(st, b)
    IN  IF s1.err # NoErr THEN s1
        ELSE LET dec == Utf8Decode(ValueOf(s1.val))
             IN  IF dec[1] THEN Return(s1, PyStr(dec[2])) ELSE Raise(s1, "UnicodeDecodeError")

BytesDeserialize(self, st, b) == read_vec(st, b)

OptionalDeserialize(self, st, b) ==
    LET s1 == read_bool(st, b)
    IN  IF s1.err # NoErr THEN s1
        ELSE IF ValueOf(s1.val) THEN Deserialize(self.element, s1, b)
        ELSE Return(s1, PyNone)

\* One value deserialized from its bytes through the temporary buffer.
TmpDeserialize(type, st, bytes) ==
    LET s1 == Scratch(st, Len(bytes))
        tmp_buf == ScratchOf(s1)
    IN  Release(Deserialize(type,
                    BufferResetOffset(write_fixed_array(s1, tmp_buf, bytes), tmp_buf), tmp_buf),
                tmp_buf)

RECURSIVE SetDeserializeLoop(_, _, _, _)
SetDeserializeLoop(self, st, raw_set, typed_set) ==
    IF st.err # NoErr \/ raw_set = <<>> THEN [st |-> st, acc |-> typed_set]
    ELSE LET Add(s1) ==
                 LET element == s1.val
                     s2 == IF s1.err = NoErr /\ ~Hashable(element)
                           THEN Raise(s1, "TypeError") ELSE s1
                 IN  SetDeserializeLoop(self, s2, Tail(raw_set),
                         IF s2.err = NoErr THEN SetAdd(typed_set, element) ELSE typed_set)
         IN  Add(TmpDeserialize(self.element_type, st, Head(raw_set)))

SetDeserialize(self, st, b) ==
    LET s1 == read_hashset(st, b)
    IN  IF s1.err # NoErr THEN s1
        ELSE LET r == SetDeserializeLoop(self, s1, s1.val, <<>>)
             IN  Return(r.st, PySet(r.acc))

\* (variant) The elements read before the input ended are returned.
RECURSIVE DeserializeN_Partial(_, _, _, _, _)
DeserializeN_Partial(element, st, b, n, elements) ==
    IF st.err # NoErr THEN st
    ELSE IF n = 0 THEN Return(st, PyList(elements))
    ELSE LET s1 == Deserialize(element, st, b)
         IN  IF s1.err = "TruncatedInputError" THEN Return(st, PyList(elements))
             ELSE IF s1.err # NoErr THEN s1
             ELSE DeserializeN_Partial(element, s1, b, n - 1, Append(elements, s1.val))

\* n elements read one after the other from b: the list in st.val.
RECURSIVE DeserializeN(_, _, _, _, _)
DeserializeN(element, st, b, n, elements) ==
    IF st.err # NoErr THEN st
    ELSE IF n = 0 THEN Return(st, PyList(elements))
    ELSE LET s1 == Deserialize(element, st, b)
         IN  IF s1.err # NoErr THEN s1
             ELSE DeserializeN(element, s1, b, n - 1, Append(elements, s1.val))

VectorDeserialize(self, st, b) ==
    LET s1 == read_u32(st, b)
    IN  IF s1.err # NoErr THEN s1 ELSE DeserializeN(self.element, s1, b, s1.val, <<>>)

ArrayDeserialize(self, st, b) == DeserializeN(self.element, st, b, self.size, <<>>)

RECURSIVE MapDeserializeLoop(_, _, _, _)
MapDeserializeLoop(self, st, raw_dict, typed_dict) ==
    IF st.err # NoErr \/ raw_dict = <<>> THEN [st |-> st, acc |-> typed_dict]
    ELSE LET key_bytes == Head(raw_dict)[1]
             val_bytes == Head(raw_dict)[2]
             Put(s1, s2) ==
                 LET typed_key == s1.val
                     typed_val == s2.val
                     s3 == IF s2.err = NoErr /\ ~Hashable(typed_key)
                           THEN Raise(s2, "TypeError") ELSE s2
                 IN  MapDeserializeLoop(self, s3, Tail(raw_dict),
                         IF s3.err = NoErr THEN DictSet(typed_dict, typed_key, typed_val)
                         ELSE typed_dict)
             Value(s1) == Put(s1, TmpDeserialize(self.value_type, s1, val_bytes))
         IN  Value(TmpDeserialize(self.key_type, st, key_bytes))

MapDeserialize(self, st, b) ==
    LET s1 == read_hashmap(st, b)
    IN  IF s1.err # NoErr THEN s1
        ELSE LET r == MapDeserializeLoop(self, s1, s1.val, <<>>)
             IN  Return(r.st, PyDict(r.acc))

PubKeyDeserialize(self, st, b) ==
    LET s1 == read_fixed_array(st, b, PUBKEY_SIZE)
    IN  IF s1.err # NoErr THEN s1 ELSE Return(s1, PyStr(Base58Encode(ValueOf(s1.val))))

PaddingDeserialize(self, st, b) == Return(read_fixed_array(st, b, self.element_size), PyNone)

\* _PADDING, the class flag Schema.deserialize looks at.
IsPadding(field_type) == field_type.k = "Padding"

RECURSIVE SchemaDeserializeFields(_, _, _, _)
SchemaDeserializeFields(fields, st, b, data) ==
    IF st.err # NoErr THEN st
    ELSE IF fields = <<>> THEN Return(st, PyDict(data))
    ELSE LET field_name == Head(fields)[1]
             field_type == Head(fields)[2]
             s1 == Deserialize(field_type, st, b)
         IN  IF s1.err # NoErr THEN s1
             ELSE SchemaDeserializeFields(Tail(fields), s1, b,
                      IF IsPadding(field_type) THEN data
                      ELSE DictSet(data, PyStr(field_name), s1.val))

SchemaDeserialize(self, st, b) == SchemaDeserializeFields(self.fields, st, b, <<>>)

Deserialize(self, st, b) ==
    CASE self.k = "Numeric" -> NumericDeserialize(self, st, b)
      [] self.k = "Bool" -> BoolDeserialize(self, st, b)
      [] self.k = "String" -> StringDeserialize(self, st, b)
      [] self.k = "Bytes" -> BytesDeserialize(self, st, b)
      [] self.k = "Optional" -> OptionalDeserialize(self, st, b)
      [] self.k = "Set" -> SetDeserialize(self, st, b)
      [] self.k = "Vector" -> VectorDeserialize(self, st, b)
      [] self.k = "Array" -> ArrayDeserialize(self, st, b)
      [] self.k = "Map" -> MapDeserialize(self, st, b)
      [] self.k = "PubKey" -> PubKeyDeserialize(self, st, b)
      [] self.k = "Padding" -> PaddingDeserialize(self, st, b)
      [] self.k = "Schema" -> SchemaDeserialize(self, st, b)

(***************************************************************************)
(* The entry points of BorshType (base.py).                                *)
(***************************************************************************)
\* What a raising call returns.
NoReturn == V("raised", 0)
NoInstance == [k |-> "None"]

\* cls(): the instance encode/decode build for _SINGLETON.  A Schema class
\* is instantiated with the defaults of Schema.__init__; a subscripted class
\* with its __args__.
Instantiate(declared) ==
    IF declared.k = "Schema" THEN Schema(declared.fields, FALSE, FALSE) ELSE declared

\* sizeof() or BUFFER_SIZE
InitialSize(self) ==
    IF sizeof(self) = SizeNone \/ sizeof(self) = 0 THEN BUFFER_SIZE ELSE sizeof(self)

\* How many Buffers the call created and did not free.
Unfreed(st) == Cardinality({i \in 3..Len(st.heap) : ~st.heap[i].freed})

Outcome(st, buf, ret) ==
    [err |-> st.err, ret |-> IF st.err = NoErr THEN ret ELSE NoReturn,
     buf |-> st.heap[buf], unfreed |-> Unfreed(st), G |-> st.heap[1], S |-> st.heap[2],
     bufs |-> st.heap]

\* data = bytes(buf.data[:buf.size]), the free() and the return of encode;
\* the free() and the return of decode.
EncodeEnd(st, buf) == Outcome(Release(st, buf), buf, PyBytes(st.heap[buf].data))
DecodeEnd(st, buf) == Outcome(Release(st, buf), buf, st.val)

\* (variant) encode without the reset() of the shared buffer.
encode_NoReset(self, global, G, S, value) ==
    LET st0 == [heap |-> <<G, S>>, err |-> NoErr, val |-> PyNone, global |-> global]
        s1 == IF global THEN st0 ELSE BufferNew(st0, InitialSize(self))
        buf == IF global THEN 1 ELSE Newest(s1)
    IN  EncodeEnd(Serialize(self, s1, buf, value), buf)

encode(self, global, G, S, value) ==
    LET st0 == [heap |-> <<G, S>>, err |-> NoErr, val |-> PyNone, global |-> global]
        s1 == IF global THEN BufferReset(st0, 1) ELSE BufferNew(st0, InitialSize(self))
        buf == IF global THEN 1 ELSE Newest(s1)
    IN  EncodeEnd(Serialize(self, s1, buf, value), buf)

\* (variant) decode without the reset() of the shared buffer.
decode_NoReset(self, global, G, S, data) ==
    LET st0 == [heap |-> <<G, S>>, err |-> NoErr, val |-> PyNone, global |-> global]
        s1 == IF global THEN st0 ELSE BufferNew(st0, InitialSize(self))
        buf == IF global THEN 1 ELSE Newest(s1)
    IN  DecodeEnd(Deserialize(self, write_fixed_array(s1, buf, ValueOf(data)), buf), buf)

decode(self, global, G, S, data) ==
    LET st0 == [heap |-> <<G, S>>, err |-> NoErr, val |-> PyNone, global |-> global]
        s1 == IF global THEN BufferReset(st0, 1) ELSE BufferNew(st0, InitialSize(self))
        buf == IF global THEN 1 ELSE Newest(s1)
    IN  DecodeEnd(Deserialize(self, write_fixed_array(s1, buf, ValueOf(data)), buf), buf)

(***************************************************************************)
(* The declared classes of the modelled processes, each with the values    *)
(* the process passes to encode and the byte strings it passes to decode   *)
(* (besides the output of its previous encode).                            *)
(***************************************************************************)
\* Field names and texts, as code points.
f_a == <<97>>
f_b == <<98>>
f_m == <<109>>
f_w == <<119>>
f_x == <<120>>
f_y == <<121>>
f_z == <<122>>
f_pad == <<112, 97, 100>>
f_key == <<107, 101, 121>>
f_inner == <<105, 110, 110, 101, 114>>
f_list == <<108, 105, 115, 116>>
t_one == PyStr(<<111, 110, 101>>)
t_two == PyStr(<<116, 119, 111>>)
t_kana == PyStr(<<12371, 12435>>)
t_emoji == PyStr(<<233, 128512>>)

\* 32-byte keys: 0x02 * 32, one with leading zero bytes, and the key of the
\* README in its base58 text form; 0x02 * 31 is too short.
KeyTwos == Repeat(2, 32)
KeyZeros == <<0, 0>> \o Repeat(7, 30)
KeyShort == Repeat(2, 31)
KeyReadmeText ==
    <<66, 54, 50, 113, 111, 78, 102, 54, 81, 74, 107, 57, 107, 88, 74, 102, 122, 114,
      54, 122, 55, 90, 49, 74, 54, 86, 114, 89, 118, 54, 98, 81, 102, 77, 122, 55,
      122, 68, 55, 99, 53, 90, 57, 77>>
\* "0OIl": characters outside the base58 alphabet.
NotBase58 == <<48, 79, 73, 108>>

\* The least and greatest value of an integer descriptor.
MinOf(d) == IF d.type = "u" THEN PyInt(0)
            ELSE PyBig(TRUE, Zeros(d.bits \div 8 - 1) \o <<128>>)
MaxOf(d) == IF d.type = "u" THEN PyBig(FALSE, Repeat(255, d.bits \div 8))
            ELSE PyBig(FALSE, Repeat(255, d.bits \div 8 - 1) \o <<127>>)

IntInputs(d) == {MinOf(d), MaxOf(d), PyPred(MinOf(d)), PySucc(MaxOf(d)), PyInt(1)}

Class(d, enc, dec) == [d |-> d, enc |-> enc, dec |-> {PyBytes(x) : x \in dec}]

Dict1(k1, v1) == PyDict(<<<<k1, v1>>>>)
Dict2(k1, v1, k2, v2) == PyDict(<<<<k1, v1>>, <<k2, v2>>>>)
Dict3(k1, v1, k2, v2, k3, v3) == PyDict(<<<<k1, v1>>, <<k2, v2>>, <<k3, v3>>>>)

\* The records of the tests: inner1 (tests/test_nested.py:6), a strict
\* variant, a record with a Padding field, and nestings of them.
Inner1 == Schema(<<<<f_x, U8>>, <<f_y, String>>>>, FALSE, TRUE)
Strict1 == Schema(<<<<f_x, U8>>, <<f_y, String>>>>, TRUE, TRUE)
Padded == Schema(<<<<f_a, U8>>, <<f_pad, Padding(U16)>>, <<f_b, I8>>>>, FALSE, TRUE)
Outer == Schema(<<<<f_w, U16>>, <<f_inner, Inner1>>, <<f_list, Vector(Inner1)>>>>, FALSE, TRUE)
OuterOfStrict == Schema(<<<<f_w, U16>>, <<f_inner, Strict1>>>>, FALSE, TRUE)
OuterOfPadded == Schema(<<<<f_inner, Padded>>, <<f_x, U8>>>>, FALSE, TRUE)
Keyed == Schema(<<<<f_key, PubKey>>, <<f_x, U8>>>>, FALSE, TRUE)
WithMap == Schema(<<<<f_m, Map(U8, Map(U8, U8))>>, <<f_pad, Padding(U8)>>, <<f_x, U8>>>>,
                  FALSE, TRUE)

\* Records built with schema(exact_size=False): one with a String between two
\* fixed-size fields, and an exact_size record, an Array and a Padding over it.
Loose == Schema(<<<<f_x, U8>>, <<f_y, String>>, <<f_w, U16>>>>, FALSE, FALSE)
ExactOfLoose == Schema(<<<<f_a, U8>>, <<f_inner, Loose>>>>, FALSE, TRUE)
GoodLoose == Dict3(PyStr(f_x), PyInt(1), PyStr(f_y), t_one, PyStr(f_w), PyInt(2))
EmptyLoose == Dict3(PyStr(f_x), PyInt(1), PyStr(f_y), PyStr(<<>>), PyStr(f_w), PyInt(2))

GoodInner == Dict2(PyStr(f_x), PyInt(255), PyStr(f_y), t_one)
GoodInnerSwapped == Dict2(PyStr(f_y), t_one, PyStr(f_x), PyInt(255))
InnerInputs ==
    {GoodInner, GoodInnerSwapped,
     Dict1(PyStr(f_x), PyInt(7)),                                  \* y missing
     Dict1(PyStr(f_y), t_two),                                     \* x missing
     Dict3(PyStr(f_x), PyInt(7), PyStr(f_y), t_two, PyStr(f_z), PyInt(1)),   \* z extra
     Dict2(PyStr(f_x), PyInt(7), PyStr(f_z), PyInt(1)),            \* y missing, z extra
     Dict2(PyStr(f_x), PyInt(256), PyStr(f_y), t_two),             \* x out of range
     Dict1(PyStr(f_x), PyInt(256)),                                \* x out of range, y missing
     PyDict(<<>>)}

ClassList ==
    <<Class(U8, IntInputs(U8) \cup {PyBool(TRUE), t_one, PyNone}, {<<>>, <<7, 9>>}),
      Class(U16, IntInputs(U16), {<<1>>}),
      Class(U32, IntInputs(U32), {<<1, 2, 3>>}),
      Class(U64, IntInputs(U64), {}),
      Class(U128, IntInputs(U128), {}),
      Class(I8, IntInputs(I8) \cup {PyInt(0 - 1)}, {}),
      Class(I16, IntInputs(I16) \cup {PyInt(0 - 123)}, {}),
      Class(I32, IntInputs(I32), {}),
      Class(I64, IntInputs(I64), {}),
      Class(I128, IntInputs(I128) \cup {PyInt(0 - 1)}, {}),
      Class(Bool, {PyBool(TRUE), PyBool(FALSE), PyInt(0), PyInt(1), PyInt(2), t_one, PyNone,
                   PyInt(0 - 1), PyFloat(0), PyFloat(1), PyFloat(2)},
            {<<2>>, <<>>}),
      Class(String, {PyStr(<<>>), t_one, t_kana, t_emoji, PyInt(1234), PyBytes(<<104>>)},
            {<<1, 0, 0, 0, 255>>, <<5, 0, 0, 0, 104>>}),
      Class(Bytes, {PyBytes(<<>>), PyBytes(<<0, 255, 7>>), t_one}, {<<2, 0, 0, 0, 1>>}),
      Class(Optional(U8), {PyNone, PyInt(255), PyInt(256), PyInt(0)}, {<<1>>, <<>>}),
      Class(Optional(String), {PyNone, t_one, PyInt(5)}, {}),
      Class(Vector(U8), {PyList(<<>>), PyList(<<PyInt(10), PyInt(20), PyInt(30)>>),
                         PyTuple(<<PyInt(1)>>), PyList(<<PyInt(1), PyInt(256)>>)},
            {<<2, 0, 0, 0, 1>>}),
      Class(Vector(I16), {PyList(<<PyInt(0 - 1), PyInt(0 - 32768), PyInt(32767)>>)}, {}),
      Class(Array(U8, 3),
            {PyList(<<PyInt(1), PyInt(2), PyInt(3)>>),
             PyList(<<PyInt(1), PyInt(2), PyInt(3), PyInt(4)>>),
             PyList(<<PyInt(1), PyInt(2)>>), PyList(<<>>),
             PyList(<<PyInt(1), PyInt(2), PyInt(256)>>),
             PyTuple(<<PyInt(1), PyInt(2), PyInt(3)>>),
             PyStr(<<97, 98, 99>>), PyStr(<<97, 98>>), PyNone,
             PySet(<<PyInt(1), PyInt(2), PyInt(3)>>)},
            {<<1, 2>>}),
      Class(Array(String, 2),
            {PyList(<<t_one, t_two>>), PyList(<<t_one>>), PyTuple(<<t_one, t_two>>)}, {}),
      Class(Array(U16, 0), {PyList(<<>>), PyList(<<PyInt(1)>>), PyTuple(<<>>)}, {}),
      Class(Set(U8),
            {PySet(<<>>), PySet(<<PyInt(1), PyInt(2), PyInt(200)>>),
             PySet(<<PyInt(200), PyInt(2), PyInt(1)>>), PySet(<<PyInt(2), PyInt(256)>>),
             PyList(<<PyInt(1)>>)},
            {<<1, 0, 0, 0, 0, 0, 0, 0>>}),                                   \* one empty entry
      Class(Set(String),
            {PySet(<<t_one, t_two, PyStr(<<>>)>>), PySet(<<PyStr(<<>>), t_two, t_one>>)}, {}),
      Class(Set(I16),
            {PySet(<<PyInt(0 - 1), PyInt(1), PyInt(256)>>),
             PySet(<<PyInt(256), PyInt(0 - 1), PyInt(1)>>)}, {}),
      Class(Map(U8, String),
            {Dict2(PyInt(1), t_one, PyInt(2), t_two), Dict2(PyInt(2), t_two, PyInt(1), t_one),
             Dict1(PyInt(999), t_one), PyList(<<t_one>>), PyDict(<<>>)},
            {}),
      Class(Map(String, U16),
            {Dict2(t_two, PyInt(1), t_one, PyInt(513)), Dict2(t_one, PyInt(513), t_two, PyInt(1))},
            {}),
      Class(Map(U8, Map(U8, U8)),
            {Dict1(PyInt(1), PyDict(<<>>)),
             Dict1(PyInt(1), Dict1(PyInt(2), PyInt(3))),
             Dict1(PyInt(1), Dict2(PyInt(2), PyInt(3), PyInt(4), PyInt(5))),
             Dict1(PyInt(1), Dict2(PyInt(4), PyInt(5), PyInt(2), PyInt(3)))},
            {<<1, 0, 0, 0, 1, 0, 0, 0, 1, 14, 0, 0, 0,
               1, 0, 0, 0, 1, 0, 0, 0, 2, 1, 0, 0, 0, 3>>}),                 \* {1: {2: 3}}
      Class(Map(U8, Set(U8)),
            {Dict1(PyInt(1), PySet(<<PyInt(2), PyInt(3)>>)),
             Dict1(PyInt(1), PySet(<<PyInt(3), PyInt(2)>>))},
            {}),
      Class(Map(PubKey, U8),
            {Dict2(PyBytes(KeyTwos), PyInt(1), PyStr(Base58Encode(KeyZeros)), PyInt(2)),
             Dict2(PyStr(Base58Encode(KeyZeros)), PyInt(2), PyBytes(KeyTwos), PyInt(1)),
             \* one key in its two forms
             Dict2(PyBytes(KeyTwos), PyInt(1), PyStr(Base58Encode(KeyTwos)), PyInt(2)),
             Dict2(PyStr(Base58Encode(KeyTwos)), PyInt(2), PyBytes(KeyTwos), PyInt(1))},
            {}),
      Class(Set(PubKey),
            {PySet(<<PyBytes(KeyTwos), PyStr(Base58Encode(KeyTwos)), PyBytes(KeyZeros)>>)}, {}),
      Class(PubKey,
            {PyBytes(KeyTwos), PyStr(Base58Encode(KeyTwos)), PyBytes(KeyZeros),
             PyStr(Base58Encode(KeyZeros)), PyStr(KeyReadmeText),
             PyBytes(KeyShort), PyStr(Base58Encode(KeyShort)), PyBytes(KeyTwos \o <<2>>),
             PyStr(Base58Encode(KeyTwos \o <<2>>)), PyStr(NotBase58), PyStr(<<>>),
             PyBytes(<<>>), PyInt(5)},
            {KeyShort}),
      Class(Padding(U8), {PyNone, t_one, PyInt(7)}, {<<9>>, <<0, 1>>, <<>>}),
      Class(Padding(I64), {PyNone, PyInt(300), PyList(<<PyInt(1)>>)},
            {<<1, 2, 3, 4, 5, 6, 7, 8>>, <<1, 2, 3>>}),
      Class(Padding(Array(U8, 10)), {PyNone, t_two}, {Repeat(255, 10), Repeat(255, 12)}),
      Class(Inner1, InnerInputs \cup {PyList(<<PyInt(1)>>)}, {}),
      Class(Strict1, InnerInputs, {}),
      Class(Padded,
            {Dict3(PyStr(f_a), PyInt(1), PyStr(f_pad), t_one, PyStr(f_b), PyInt(0 - 2)),
             Dict3(PyStr(f_b), PyInt(0 - 2), PyStr(f_pad), PyNone, PyStr(f_a), PyInt(1)),
             Dict2(PyStr(f_a), PyInt(1), PyStr(f_b), PyInt(0 - 2)),          \* pad missing
             Dict2(PyStr(f_a), PyInt(1), PyStr(f_pad), PyNone)},             \* b missing
            {<<1, 170, 187, 254>>}),
      Class(Outer,
            {Dict3(PyStr(f_w), PyInt(65535), PyStr(f_inner), GoodInner,
                   PyStr(f_list), PyList(<<GoodInner, Dict2(PyStr(f_x), PyInt(2), PyStr(f_y), t_two)>>)),
             Dict3(PyStr(f_list),
                   PyList(<<GoodInnerSwapped, Dict2(PyStr(f_y), t_two, PyStr(f_x), PyInt(2))>>),
                   PyStr(f_inner), GoodInnerSwapped, PyStr(f_w), PyInt(65535)),
             Dict3(PyStr(f_w), PyInt(1000), PyStr(f_inner), Dict1(PyStr(f_x), PyInt(7)),
                   PyStr(f_list), PyList(<<>>)),                              \* inner.y missing
             Dict2(PyStr(f_w), PyInt(1000), PyStr(f_list), PyList(<<>>)),     \* inner missing
             Dict3(PyStr(f_w), PyInt(1000), PyStr(f_inner), GoodInner,
                   PyStr(f_list), PyList(<<Dict1(PyStr(f_y), t_two)>>)),      \* list[0].x missing
             Dict3(PyStr(f_w), PyInt(65536), PyStr(f_inner), GoodInner,
                   PyStr(f_list), PyList(<<>>)),                              \* w out of range
             Dict3(PyStr(f_w), PyInt(1), PyStr(f_inner),
                   Dict2(PyStr(f_x), PyInt(999), PyStr(f_y), t_one),
                   PyStr(f_list), PyList(<<>>))},                             \* inner.x out of range
            {}),
      Class(OuterOfStrict,
            {Dict2(PyStr(f_w), PyInt(1), PyStr(f_inner), GoodInner),
             Dict2(PyStr(f_w), PyInt(1), PyStr(f_inner), Dict1(PyStr(f_x), PyInt(7))),
             Dict2(PyStr(f_w), PyInt(1), PyStr(f_inner),
                   Dict3(PyStr(f_x), PyInt(7), PyStr(f_y), t_two, PyStr(f_z), PyInt(1))),
             Dict1(PyStr(f_inner), GoodInner)},
            {}),
      Class(OuterOfPadded,
            {Dict2(PyStr(f_inner),
                   Dict3(PyStr(f_a), PyInt(1), PyStr(f_pad), PyInt(9), PyStr(f_b), PyInt(2)),
                   PyStr(f_x), PyInt(3)),
             Dict2(PyStr(f_inner), Dict2(PyStr(f_a), PyInt(1), PyStr(f_b), PyInt(2)),
                   PyStr(f_x), PyInt(3))},                                    \* inner.pad missing
            {}),
      Class(Keyed,
            {Dict2(PyStr(f_key), PyStr(KeyReadmeText), PyStr(f_x), PyInt(1)),
             Dict2(PyStr(f_key), PyBytes(KeyTwos), PyStr(f_x), PyInt(1))},
            {}),
      Class(WithMap,
            {Dict3(PyStr(f_m), Dict1(PyInt(1), Dict1(PyInt(2), PyInt(3))),
                   PyStr(f_pad), PyNone, PyStr(f_x), PyInt(4)),
             Dict3(PyStr(f_m), Dict1(PyInt(1), PyDict(<<>>)),
                   PyStr(f_pad), PyNone, PyStr(f_x), PyInt(4))},
            {}),
      Class(Loose, {GoodLoose, EmptyLoose, Dict2(PyStr(f_x), PyInt(1), PyStr(f_w), PyInt(2))},
            {<<1, 0, 0, 0, 0, 2>>}),
      Class(ExactOfLoose, {Dict2(PyStr(f_a), PyInt(9), PyStr(f_inner), GoodLoose)}, {}),
      Class(Array(Loose, 2), {PyList(<<GoodLoose, EmptyLoose>>), PyList(<<GoodLoose>>)}, {}),
      Class(Padding(Loose), {PyNone, GoodLoose}, {<<5, 6, 7>>, <<5, 6>>})>>

Classes == ClassList

(***************************************************************************)
(* The process: import of qborsh.constants, then encode and decode calls   *)
(* on its declared class.                                                  *)
(***************************************************************************)
\* The two threads of the second specification, the classes they call and
\* the calls they make (fresh mode).
Threads == {1, 2}
ConcClasses == <<Set(U8), Map(U8, String), Vector(U8)>>
ConcCall(c, op, arg) == [cls |-> c, op |-> op, arg |-> arg]
ConcCalls ==
    {ConcCall(1, "encode", PySet(<<PyInt(2), PyInt(1)>>)),
     ConcCall(1, "encode", PySet(<<PyInt(1), PyInt(256)>>)),
     ConcCall(1, "encode", PyList(<<PyInt(1)>>)),
     ConcCall(1, "decode", PyBytes(<<2, 0, 0, 0, 1, 0, 0, 0, 1, 1, 0, 0, 0, 2>>)),
     ConcCall(2, "encode", Dict1(PyInt(1), t_one)),
     ConcCall(3, "encode", PyList(<<PyInt(10), PyInt(20), PyInt(30)>>)),
     ConcCall(3, "decode", PyBytes(<<2, 0, 0, 0, 1>>))}

Idle == [pc |-> "idle", cls |-> 0, op |-> "none", arg |-> PyNone, self |-> NoInstance,
         buf |-> 0, jobs |-> <<>>, tmp_buf |-> 0, key_bytes |-> <<>>,
         temp_set |-> {}, temp_dict |-> [x \in {} |-> <<>>], err |-> NoErr,
         ret |-> NoReturn]

NoCall == [op |-> "none", arg |-> PyNone, err |-> NoErr, ret |-> NoReturn,
           buf |-> NoBuffer, unfreed |-> 0, bufs |-> <<>>]

NewBuffer(capacity) == [data |-> <<>>, cap |-> capacity, offset |-> 0, freed |-> FALSE]

Init ==
    /\ reuse \in BOOLEAN
    /\ GLOBAL_BUFFER = IF reuse THEN NewBuffer(BUFFER_SIZE) ELSE NoBuffer
    /\ GLOBAL_BUFFER_SUB = IF reuse THEN NewBuffer(BUFFER_SIZE) ELSE NoBuffer
    /\ cls \in DOMAIN Classes
    /\ SINGLETON = NoInstance
    /\ call = NoCall
    /\ prev = NoCall
    /\ threads = [t \in Threads |-> Idle]
    /\ heap = <<NoBuffer, NoBuffer>>
    /\ singletons = [c \in DOMAIN ConcClasses |-> NoInstance]

\* cls._SINGLETON after the first lines of encode/decode.
Self == IF SINGLETON = NoInstance THEN Instantiate(Classes[cls].d) ELSE SINGLETON

Finish(op, arg, r) ==
    /\ SINGLETON' = Self
    /\ GLOBAL_BUFFER' = r.G
    /\ GLOBAL_BUFFER_SUB' = r.S
    /\ call' = [op |-> op, arg |-> arg, err |-> r.err, ret |-> r.ret,
                buf |-> r.buf, unfreed |-> r.unfreed, bufs |-> r.bufs]
    /\ prev' = call
    /\ UNCHANGED <<reuse, cls, threads, heap, singletons>>

Encode ==
    \E value \in Classes[cls].enc :
        Finish("encode", value, encode(Self, reuse, GLOBAL_BUFFER, GLOBAL_BUFFER_SUB, value))

\* The byte strings decode is called with: the class's own, and what the
\* previous call encoded.
DecodeInputs ==
    Classes[cls].dec \cup (IF call.op = "encode" /\ call.err = NoErr THEN {call.ret} ELSE {})

Decode ==
    \E data \in DecodeInputs :
        Finish("decode", data, decode(Self, reuse, GLOBAL_BUFFER, GLOBAL_BUFFER_SUB, data))

\* The call the process makes on a descriptor other than its declared class,
\* between the calls on that class: an encode that raises RangeError after
\* it made the top-level and the scratch buffer grow and left bytes in both.
OtherRecord == Schema(<<<<f_y, String>>, <<f_m, Map(U8, Vector(U8))>>>>, FALSE, TRUE)
OtherValue ==
    Dict2(PyStr(f_y), t_emoji, PyStr(f_m),
          Dict1(PyInt(1), PyList(<<PyInt(1), PyInt(2), PyInt(3), PyInt(4), PyInt(5), PyInt(300)>>)))

\* The call is made and its exception caught; what stays is the state of the
\* global buffers (the other class has a singleton of its own).
Disturb ==
    LET r == encode(Instantiate(OtherRecord), reuse, GLOBAL_BUFFER, GLOBAL_BUFFER_SUB, OtherValue)
    IN  /\ GLOBAL_BUFFER' = r.G
        /\ GLOBAL_BUFFER_SUB' = r.S
        /\ UNCHANGED <<reuse, cls, SINGLETON, call, prev, threads, heap, singletons>>

Next == Encode \/ Decode \/ Disturb

Spec == Init /\ [][Next]_vars

(***************************************************************************)
(* Two threads of one process in fresh mode, each making one encode or     *)
(* decode call; a thread may be preempted between any two of the Buffer    *)
(* operations of encode, decode and the loops of Set.serialize and         *)
(* Map.serialize.  (serialize and deserialize of the other types, and of a *)
(* collection inside a collection, are one step.)                          *)
(***************************************************************************)
InitConc ==
    /\ reuse = FALSE
    /\ GLOBAL_BUFFER = NoBuffer
    /\ GLOBAL_BUFFER_SUB = NoBuffer
    /\ cls = 1
    /\ SINGLETON = NoInstance
    /\ call = NoCall
    /\ prev = NoCall
    /\ threads = [t \in Threads |-> Idle]
    /\ heap = <<NoBuffer, NoBuffer>>
    /\ singletons = [c \in DOMAIN ConcClasses |-> NoInstance]

\* The state a thread's next Buffer operation starts from.
Running == [heap |-> heap, err |-> NoErr, val |-> PyNone, global |-> FALSE]

\* A Buffer operation of thread t left the state r: the thread goes on at
\* pc, or leaves the call with the exception; what deserialize returned is
\* kept for the return.
Resume(t, r, pc) ==
    /\ heap' = r.heap
    /\ threads' =
          IF r.err # NoErr
          THEN [threads EXCEPT ![t].pc = "raised", ![t].err = r.err]
          ELSE [threads EXCEPT ![t].pc = pc,
                               ![t].ret = IF threads[t].pc = "deserialize" THEN r.val ELSE @]

Frame == <<reuse, GLOBAL_BUFFER, GLOBAL_BUFFER_SUB, cls, SINGLETON, call, prev>>

\* The first lines of encode and of decode: the singleton, then Buffer(size).
ThreadCall(t) ==
    /\ threads[t].pc = "idle"
    /\ \E c \in ConcCalls :
          LET self == IF singletons[c.cls] = NoInstance
                      THEN Instantiate(ConcClasses[c.cls]) ELSE singletons[c.cls]
              s1 == BufferNew(Running, InitialSize(self))
          IN  /\ singletons' = [singletons EXCEPT ![c.cls] = self]
              /\ heap' = s1.heap
              /\ threads' = [threads EXCEPT ![t] =
                     [Idle EXCEPT !.pc = IF c.op = "encode" THEN "serialize"
                                                           ELSE "write_fixed_array",
                                  !.cls = c.cls, !.op = c.op, !.arg = c.arg,
                                  !.self = self, !.buf = Newest(s1)]]
    /\ UNCHANGED Frame

\* The entries a Set or a Map serializes one by one, in iteration order.
Jobs(self, value) ==
    IF self.k = "Set"
    THEN [i \in 1..Len(ValueOf(value)) |-> <<"element", ValueOf(value)[i]>>]
    ELSE [i \in 1..(2 * Len(ValueOf(value))) |->
             IF i % 2 = 1 THEN <<"key", ValueOf(value)[(i + 1) \div 2][1]>>
                          ELSE <<"value", ValueOf(value)[i \div 2][2]>>]

\* self.serialize(buf, value): the isinstance check of a Set or Map, which
\* then goes through its entries; the whole serialize of another type.
ThreadSerialize(t) ==
    LET th == threads[t]
        isinstance == TypeOf(th.arg) = (IF th.self.k = "Set" THEN "set" ELSE "dict")
    IN  /\ th.pc = "serialize"
        /\ IF th.self.k \in {"Set", "Map"}
           THEN IF isinstance
                THEN /\ heap' = heap
                     /\ threads' = [threads EXCEPT ![t].pc = "loop",
                                                   ![t].jobs = Jobs(th.self, th.arg)]
                ELSE Resume(t, Raise(Running, "TypeError"), "loop")
           ELSE Resume(t, Serialize(th.self, Running, th.buf, th.arg), "data")
        /\ UNCHANGED <<Frame, singletons>>

\* tmp_buf = Buffer(BUFFER_SIZE) (key_buf, val_buf in a Map)
ThreadTmpNew(t) ==
    LET s1 == Scratch(Running, BUFFER_SIZE)
    IN  /\ threads[t].pc = "loop" /\ threads[t].jobs # <<>>
        /\ heap' = s1.heap
        /\ threads' = [threads EXCEPT ![t].pc = "tmp_serialize", ![t].tmp_buf = ScratchOf(s1)]
        /\ UNCHANGED <<Frame, singletons>>

\* self.element_type.serialize(tmp_buf, element), and the like of a Map
ThreadTmpSerialize(t) ==
    LET th == threads[t]
        job == Head(th.jobs)
        type == CASE job[1] = "element" -> th.self.element_type
                  [] job[1] = "key" -> th.self.key_type
                  [] job[1] = "value" -> th.self.value_type
    IN  /\ th.pc = "tmp_serialize"
        /\ Resume(t, Serialize(type, Running, th.tmp_buf, job[2]), "tmp_bytes")
        /\ UNCHANGED <<Frame, singletons>>

\* element_bytes = bytes(tmp_buf.data[: tmp_buf.size]); tmp_buf.free();
\* temp_set.add(element_bytes) -- in a Map the key's bytes wait for the value's
ThreadTmpTake(t) ==
    LET th == threads[t]
        job == Head(th.jobs)
        bytes == heap[th.tmp_buf].data
    IN  /\ th.pc = "tmp_bytes"
        /\ heap' = Release(Running, th.tmp_buf).heap
        /\ threads' = [threads EXCEPT
              ![t].pc = "loop",
              ![t].jobs = Tail(th.jobs),
              ![t].key_bytes = IF job[1] = "key" THEN bytes ELSE @,
              ![t].temp_set = IF job[1] = "element" THEN @ \cup {bytes} ELSE @,
              ![t].temp_dict = IF job[1] = "value" THEN (th.key_bytes :> bytes) @@ @ ELSE @]
        /\ UNCHANGED <<Frame, singletons>>

\* buf.write_hashset(temp_set), buf.write_hashmap(temp_dict)
ThreadWrite(t) ==
    LET th == threads[t]
    IN  /\ th.pc = "loop" /\ th.jobs = <<>>
        /\ Resume(t, IF th.self.k = "Set" THEN write_hashset(Running, th.buf, th.temp_set)
                                          ELSE write_hashmap(Running, th.buf, th.temp_dict),
                  "data")
        /\ UNCHANGED <<Frame, singletons>>

\* buf.write_fixed_array(data) of decode
ThreadFill(t) ==
    /\ threads[t].pc = "write_fixed_array"
    /\ Resume(t, write_fixed_array(Running, threads[t].buf, ValueOf(threads[t].arg)),
              "deserialize")
    /\ UNCHANGED <<Frame, singletons>>

\* value = self.deserialize(buf)
ThreadDeserialize(t) ==
    /\ threads[t].pc = "deserialize"
    /\ Resume(t, Deserialize(threads[t].self, Running, threads[t].buf), "data")
    /\ UNCHANGED <<Frame, singletons>>

\* data = bytes(buf.data[: buf.size]) of encode; buf.free(); return
ThreadReturn(t) ==
    LET th == threads[t]
    IN  /\ th.pc = "data"
        /\ heap' = Release(Running, th.buf).heap
        /\ threads' = [threads EXCEPT
              ![t].pc = "returned",
              ![t].ret = IF th.op = "encode" THEN PyBytes(heap[th.buf].data) ELSE @]
        /\ UNCHANGED <<Frame, singletons>>

NextConc ==
    \E t \in Threads :
        \/ ThreadCall(t)
        \/ ThreadSerialize(t)
        \/ ThreadTmpNew(t)
        \/ ThreadTmpSerialize(t)
        \/ ThreadTmpTake(t)
        \/ ThreadWrite(t)
        \/ ThreadFill(t)
        \/ ThreadDeserialize(t)
        \/ ThreadReturn(t)

SpecConc == InitConc /\ [][NextConc]_vars

(***************************************************************************)
(* Vocabulary of the properties.                                           *)
(***************************************************************************)
Declared == Classes[cls].d

\* Whether a descriptor is, or contains, a descriptor of the given kind.
RECURSIVE Contains(_, _)
Contains(d, kind) ==
    \/ d.k = kind
    \/ d.k \in {"Optional", "Vector", "Array", "Padding"} /\ Contains(d.element, kind)
    \/ d.k = "Set" /\ Contains(d.element_type, kind)
    \/ d.k = "Map" /\ (Contains(d.key_type, kind) \/ Contains(d.value_type, kind))
    \/ d.k = "Schema" /\ \E i \in 1..Len(d.fields) : Contains(d.fields[i][2], kind)

FieldNames(d) == {PyStr(d.fields[i][1]) : i \in 1..Len(d.fields)}
DataNames(d) == {PyStr(d.fields[i][1]) : i \in {j \in 1..Len(d.fields) : ~IsPadding(d.fields[j][2])}}

\* What is wrong with a value as input of a descriptor, by the documented
\* domain of each type: a set of faults, empty for a valid value.
RECURSIVE Faults(_, _)
Faults(d, v) ==
    CASE d.k = "Numeric" ->
            IF TypeOf(v) \notin {"int", "bool"} THEN {"type"}
            ELSE IF (IF d.type = "u" THEN FitsUnsigned(ValueOf(AsInt(v)), d.bits \div 8)
                     ELSE FitsSigned(ValueOf(AsInt(v)), d.bits \div 8))
                 THEN {} ELSE {"range"}
      [] d.k = "Bool" ->
            IF TypeOf(v) = "bool" \/ v = PyInt(0) \/ v = PyInt(1) THEN {} ELSE {"type"}
      [] d.k = "String" -> IF TypeOf(v) = "str" THEN {} ELSE {"type"}
      [] d.k = "Bytes" -> IF TypeOf(v) = "bytes" THEN {} ELSE {"type"}
      [] d.k = "Optional" -> IF v = PyNone THEN {} ELSE Faults(d.element, v)
      [] d.k = "Vector" ->
            IF TypeOf(v) # "list" THEN {"type"}
            ELSE UNION {Faults(d.element, ValueOf(v)[i]) : i \in 1..Len(ValueOf(v))}
      [] d.k = "Array" ->
            IF TypeOf(v) # "list" THEN {"type"}
            ELSE (IF Len(ValueOf(v)) # d.size THEN {"length"} ELSE {})
                 \cup UNION {Faults(d.element, ValueOf(v)[i]) : i \in 1..Len(ValueOf(v))}
      [] d.k = "Set" ->
            IF TypeOf(v) # "set" THEN {"type"}
            ELSE UNION {Faults(d.element_type, ValueOf(v)[i]) : i \in 1..Len(ValueOf(v))}
      [] d.k = "Map" ->
            IF TypeOf(v) # "dict" THEN {"type"}
            ELSE UNION {Faults(d.key_type, ValueOf(v)[i][1])
                        \cup Faults(d.value_type, ValueOf(v)[i][2]) : i \in 1..Len(ValueOf(v))}
      [] d.k = "PubKey" ->
            IF TypeOf(v) = "bytes" THEN (IF Len(ValueOf(v)) = PUBKEY_SIZE THEN {} ELSE {"length"})
            ELSE IF TypeOf(v) # "str" THEN {"type"}
            ELSE IF ~Base58Decode(ValueOf(v))[1] THEN {"text"}
            ELSE IF Len(Base58Decode(ValueOf(v))[2]) = PUBKEY_SIZE THEN {} ELSE {"length"}
      [] d.k = "Padding" -> {}
      [] d.k = "Schema" ->
            IF TypeOf(v) # "dict" THEN {"type"}
            ELSE (IF FieldNames(d) \ DictKeys(ValueOf(v)) = {} THEN {}
                  ELSE IF d.validate THEN {"strict-missing"} ELSE {"missing"})
                 \cup (IF DictKeys(ValueOf(v)) \ FieldNames(d) = {} THEN {}
                       ELSE IF d.validate THEN {"strict-extra"} ELSE {"extra"})
                 \cup UNION {IF DictHas(ValueOf(v), PyStr(d.fields[i][1]))
                             THEN Faults(d.fields[i][2], DictGet(ValueOf(v), PyStr(d.fields[i][1])))
                             ELSE {} : i \in 1..Len(d.fields)}

\* type.encode(value) and type.decode(data) called on their own, in the
\* process's buffer mode, with the global buffers as created at import.
G0 == IF reuse THEN NewBuffer(BUFFER_SIZE) ELSE NoBuffer
Alone(d, v) == encode(Instantiate(d), reuse, G0, G0, v)
AloneDecode(d, data) == decode(Instantiate(d), reuse, G0, G0, data)

\* The concatenation of the encodings of values under one type, and of a
\* mapping's values under the fields of a record, in declaration order.
RECURSIVE EachAlone(_, _)
EachAlone(d, vs) ==
    IF vs = <<>> THEN <<>> ELSE ValueOf(Alone(d, Head(vs)).ret) \o EachAlone(d, Tail(vs))

RECURSIVE FieldsAlone(_, _)
FieldsAlone(fields, m) ==
    IF fields = <<>> THEN <<>>
    ELSE ValueOf(Alone(Head(fields)[2], DictGet(ValueOf(m), PyStr(Head(fields)[1]))).ret)
         \o FieldsAlone(Tail(fields), m)

Encoded == call.op = "encode"
Decoded == call.op = "decode"
\* The last call decoded what the call before it encoded.
RoundTripped ==
    /\ call.op = "decode" /\ prev.op = "encode" /\ prev.err = NoErr
    /\ call.arg = prev.ret

(***************************************************************************)
(* C1.  Round trip: for every descriptor and every valid value v of it,    *)
(* decode(encode(v)) succeeds and equals v.  Stated for the descriptors    *)
(* without Padding (which decodes to None) and without PubKey (which       *)
(* decodes to the text form).                                              *)
(***************************************************************************)
C1_RoundTrip ==
    (/\ RoundTripped /\ Faults(Declared, prev.arg) = {}
     /\ ~Contains(Declared, "Padding") /\ ~Contains(Declared, "PubKey"))
        => (call.err = NoErr /\ PyEq(call.ret, prev.arg))

(***************************************************************************)
(* C2.  Canonical determinism: two encode calls given the same Set or Map  *)
(* content in different construction orders return the same bytes.         *)
(***************************************************************************)
C2_CanonicalDeterminism ==
    (/\ call.op = "encode" /\ prev.op = "encode"
     /\ Contains(Declared, "Set") \/ Contains(Declared, "Map")
     /\ PyEq(call.arg, prev.arg) /\ call.arg # prev.arg
     /\ prev.err = NoErr)
        => (call.err = NoErr /\ call.ret = prev.ret)

(***************************************************************************)
(* C3.  Strict validation: encode on a record declared with validate=True  *)
(* raises the missing-keys ValueError for a mapping that lacks a declared  *)
(* field and the extra-keys ValueError for one that has all of them and an *)
(* undeclared key, on every call.                                          *)
(***************************************************************************)
C3_StrictValidation ==
    (/\ call.op = "encode" /\ Declared.k = "Schema" /\ Declared.validate
     /\ TypeOf(call.arg) = "dict")
        => /\ FieldNames(Declared) \ DictKeys(ValueOf(call.arg)) # {}
                => call.err = "ValueError: Missing keys"
           /\ (/\ FieldNames(Declared) \ DictKeys(ValueOf(call.arg)) = {}
               /\ DictKeys(ValueOf(call.arg)) \ FieldNames(Declared) # {})
                => call.err = "ValueError: Extra keys"

(***************************************************************************)
(* C4.  Range enforcement: an integer descriptor encodes its least and     *)
(* greatest value into bits/8 bytes; it raises the range error for the     *)
(* value below the least and above the greatest with nothing written; and  *)
(* a value whose only fault is such a number inside it (under Optional, as *)
(* a Map key, in a Record field) raises the same error.                    *)
(***************************************************************************)
C4_RangeEnforcement ==
    Encoded =>
        /\ (Declared.k = "Numeric" /\ call.arg \in {MinOf(Declared), MaxOf(Declared)})
              => (call.err = NoErr /\ Len(ValueOf(call.ret)) = Declared.bits \div 8)
        /\ (/\ Declared.k = "Numeric"
            /\ call.arg \in {PyPred(MinOf(Declared)), PySucc(MaxOf(Declared))})
              => (call.err = "RangeError" /\ call.buf.data = <<>>)
        /\ Faults(Declared, call.arg) = {"range"} => call.err = "RangeError"

\* A number out of range in a field of a nested record was refused.
C4_Witness ==
    /\ Encoded /\ Declared = Outer /\ Faults(Declared, call.arg) = {"range"}
    /\ call.err = "RangeError" /\ call.buf.data # <<>>

(***************************************************************************)
(* C5.  Array[T, n].encode raises TypeError for a value that is no list,   *)
(* whatever its length, and ValueError for a list of another length than   *)
(* n, in both cases with nothing written; a valid list of n elements is    *)
(* written as its n element encodings and nothing else.                    *)
(***************************************************************************)
C5_ArrayLength ==
    (Encoded /\ Declared.k = "Array") =>
        /\ TypeOf(call.arg) # "list" => (call.err = "TypeError" /\ call.buf.data = <<>>)
        /\ (TypeOf(call.arg) = "list" /\ Len(ValueOf(call.arg)) # Declared.size)
              => (call.err = "ValueError" /\ call.buf.data = <<>>)
        /\ Faults(Declared, call.arg) = {}
              => /\ call.err = NoErr
                 /\ ValueOf(call.ret) = EachAlone(Declared.element, ValueOf(call.arg))

\* A list that is too long, with valid elements, was refused.
C5_Witness ==
    /\ Encoded /\ Declared.k = "Array" /\ TypeOf(call.arg) = "list"
    /\ Len(ValueOf(call.arg)) > Declared.size /\ Faults(Declared, call.arg) = {"length"}
    /\ call.err = "ValueError"

(***************************************************************************)
(* C6.  Padding(inner).encode(x) returns inner.sizeof() zero bytes for     *)
(* every x; decode of at least that many bytes consumes exactly            *)
(* inner.sizeof() of them and returns None whatever they hold.             *)
(***************************************************************************)
C6_Padding ==
    Declared.k = "Padding" =>
        /\ Encoded => (call.err = NoErr /\ call.ret = PyBytes(Zeros(sizeof(Declared.element))))
        /\ (Decoded /\ Len(ValueOf(call.arg)) >= sizeof(Declared.element))
              => /\ call.err = NoErr /\ call.ret = PyNone
                 /\ call.buf.offset = sizeof(Declared.element)

\* Nonzero bytes, more of them than the padding, were decoded.
C6_Witness ==
    /\ Decoded /\ Declared.k = "Padding" /\ call.err = NoErr
    /\ Len(ValueOf(call.arg)) > sizeof(Declared.element)
    /\ \E i \in 1..Len(ValueOf(call.arg)) : ValueOf(call.arg)[i] # 0

(***************************************************************************)
(* C7.  Record decode drops Padding fields: decoding what encode returned  *)
(* for a valid mapping m gives a mapping whose keys are the declared       *)
(* fields that are no Padding, each with m's value.  Stated for the        *)
(* records with no PubKey and no record with Padding inside a field.       *)
(***************************************************************************)
C7_PaddingDropped ==
    (/\ RoundTripped /\ Declared.k = "Schema"
     /\ Faults(Declared, prev.arg) = {}
     /\ ~Contains(Declared, "PubKey")
     /\ \A i \in 1..Len(Declared.fields) :
            IsPadding(Declared.fields[i][2]) \/ ~Contains(Declared.fields[i][2], "Padding"))
        => /\ call.err = NoErr
           /\ TypeOf(call.ret) = "dict"
           /\ DictKeys(ValueOf(call.ret)) = DataNames(Declared)
           /\ \A name \in DataNames(Declared) :
                  PyEq(DictGet(ValueOf(call.ret), name), DictGet(ValueOf(prev.arg), name))

(***************************************************************************)
(* C8.  Record wire order: what encode returns for a mapping is the        *)
(* concatenation, in declaration order, of the encodings of its fields'    *)
(* values, so two mappings that differ only in the order of their keys     *)
(* (at any depth of nested records) encode alike; decode returns the       *)
(* fields in declaration order, each as its type decodes it.               *)
(***************************************************************************)
RECURSIVE SameRecord(_, _, _)
SameRecord(d, a, b) ==
    CASE d.k = "Schema" ->
            /\ TypeOf(a) = "dict" /\ TypeOf(b) = "dict"
            /\ DictKeys(ValueOf(a)) = DictKeys(ValueOf(b))
            /\ FieldNames(d) \subseteq DictKeys(ValueOf(a))
            /\ \A i \in 1..Len(d.fields) :
                   SameRecord(d.fields[i][2], DictGet(ValueOf(a), PyStr(d.fields[i][1])),
                              DictGet(ValueOf(b), PyStr(d.fields[i][1])))
      [] d.k = "Vector" ->
            /\ TypeOf(a) = "list" /\ TypeOf(b) = "list"
            /\ Len(ValueOf(a)) = Len(ValueOf(b))
            /\ \A i \in 1..Len(ValueOf(a)) : SameRecord(d.element, ValueOf(a)[i], ValueOf(b)[i])
      [] OTHER -> a = b

KeysInOrder(m) == [i \in 1..Len(ValueOf(m)) |-> ValueOf(m)[i][1]]
DataFields(d) == SelectSeq(d.fields, LAMBDA f : ~IsPadding(f[2]))

C8_WireOrder ==
    Declared.k = "Schema" =>
        /\ (Encoded /\ call.err = NoErr)
              => ValueOf(call.ret) = FieldsAlone(Declared.fields, call.arg)
        /\ (Encoded /\ prev.op = "encode" /\ SameRecord(Declared, call.arg, prev.arg))
              => (call.err = prev.err /\ call.ret = prev.ret)
        /\ (Decoded /\ call.err = NoErr)
              => KeysInOrder(call.ret) = [i \in 1..Len(DataFields(Declared)) |->
                                             PyStr(DataFields(Declared)[i][1])]
        /\ (RoundTripped /\ call.err = NoErr)
              => \A i \in 1..Len(DataFields(Declared)) :
                     LET name == PyStr(DataFields(Declared)[i][1])
                         type == DataFields(Declared)[i][2]
                     IN  DictGet(ValueOf(call.ret), name)
                           = AloneDecode(type, Alone(type, DictGet(ValueOf(prev.arg), name)).ret).ret

\* The nested record was encoded twice, from mappings whose keys come in
\* different orders at both levels.
C8_Witness ==
    /\ Encoded /\ prev.op = "encode" /\ Declared = Outer /\ call.err = NoErr
    /\ SameRecord(Declared, call.arg, prev.arg) /\ call.arg # prev.arg
    /\ KeysInOrder(call.arg) # KeysInOrder(prev.arg)

(***************************************************************************)
(* C9.  Strict mode off: encode of a mapping whose only fault is a missing *)
(* declared field (of the record or of a record nested in it, a Padding    *)
(* field included) raises KeyError and returns nothing, also when earlier  *)
(* fields were already written to the buffer.                              *)
(***************************************************************************)
C9_MissingField ==
    (Encoded /\ Faults(Declared, call.arg) = {"missing"})
        => (call.err = "KeyError" /\ call.ret = NoReturn)

\* A field was missing after earlier fields had been written.
C9_Witness ==
    /\ Encoded /\ Faults(Declared, call.arg) = {"missing"}
    /\ call.err = "KeyError" /\ call.buf.data # <<>>

(***************************************************************************)
(* C10. PubKey: encode takes 32 raw bytes or the base58 text of 32 bytes   *)
(* and returns those bytes, and raises ValueError for a payload of any     *)
(* other length; decode returns the base58 text of the 32 bytes it reads;  *)
(* both input forms of a key come back as the same text.                   *)
(***************************************************************************)
C10_PubKey ==
    Declared.k = "PubKey" =>
        /\ (Encoded /\ TypeOf(call.arg) = "bytes")
              => IF Len(ValueOf(call.arg)) = PUBKEY_SIZE
                 THEN call.err = NoErr /\ call.ret = call.arg
                 ELSE call.err = "ValueError"
        /\ (Encoded /\ TypeOf(call.arg) = "str" /\ Base58Decode(ValueOf(call.arg))[1])
              => IF Len(Base58Decode(ValueOf(call.arg))[2]) = PUBKEY_SIZE
                 THEN call.err = NoErr /\ call.ret = PyBytes(Base58Decode(ValueOf(call.arg))[2])
                 ELSE call.err = "ValueError"
        /\ (Decoded /\ Len(ValueOf(call.arg)) >= PUBKEY_SIZE)
              => /\ call.err = NoErr /\ TypeOf(call.ret) = "str"
                 /\ Base58Decode(ValueOf(call.ret))
                      = <<TRUE, SubSeq(ValueOf(call.arg), 1, PUBKEY_SIZE)>>
        /\ RoundTripped
              => /\ call.err = NoErr
                 /\ call.ret = IF TypeOf(prev.arg) = "str" THEN prev.arg
                               ELSE PyStr(Base58Encode(ValueOf(prev.arg)))

\* A key given as raw bytes, with leading zero bytes, came back as text.
C10_Witness ==
    /\ RoundTripped /\ Declared.k = "PubKey" /\ prev.arg = PyBytes(KeyZeros)
    /\ call.err = NoErr /\ TypeOf(call.ret) = "str"

\* A descriptor and the descriptors it is built from.
RECURSIVE Parts(_)
Parts(d) ==
    {d} \cup CASE d.k \in {"Optional", "Vector", "Array", "Padding"} -> Parts(d.element)
               [] d.k = "Set" -> Parts(d.element_type)
               [] d.k = "Map" -> Parts(d.key_type) \cup Parts(d.value_type)
               [] d.k = "Schema" -> UNION {Parts(d.fields[i][2]) : i \in 1..Len(d.fields)}
               [] OTHER -> {}

(***************************************************************************)
(* C11.  Fixed-size laws: sizeof() of a numeric descriptor is its width    *)
(* in bytes and of Bool is 1; of Array(inner, n) it is n times the inner   *)
(* size when that is fixed and unknown otherwise; of Padding(inner) it is  *)
(* the inner size; of every Vector, Map, Set, String, Bytes and Optional   *)
(* it is unknown.  Stated for the declared descriptor and every descriptor *)
(* it is built from.                                                       *)
(***************************************************************************)
C11_SizeofLaws ==
    \A d \in Parts(Declared) :
        /\ d.k = "Numeric" => \E w \in 1..16 : d.bits = 8 * w /\ sizeof(d) = w
        /\ d.k = "Bool" => sizeof(d) = 1
        /\ d.k = "Array" =>
              sizeof(d) = IF sizeof(d.element) = SizeNone THEN SizeNone
                          ELSE d.size * sizeof(d.element)
        /\ d.k = "Padding" => sizeof(d) = sizeof(d.element)
        /\ d.k \in {"Vector", "Map", "Set", "String", "Bytes", "Optional"}
              => sizeof(d) = SizeNone

\* A fresh-mode encode of an Array of three one-byte elements got the Buffer
\* that encode sizes with sizeof().
C11_Witness ==
    /\ ~reuse /\ Encoded /\ call.err = NoErr
    /\ Declared.k = "Array" /\ Declared.size > 1 /\ sizeof(Declared.element) = 1
    /\ call.buf.cap = Declared.size

(***************************************************************************)
(* C12.  Bool.encode accepts True, False and the integers 0 and 1 and      *)
(* returns exactly one byte, 0x00 or 0x01; every other input raises        *)
(* TypeError and leaves the buffer without a byte written.                 *)
(***************************************************************************)
C12_BoolDomain ==
    (Declared.k = "Bool" /\ Encoded) =>
        IF call.arg \in {PyBool(TRUE), PyBool(FALSE), PyInt(0), PyInt(1)}
        THEN /\ call.err = NoErr
             /\ call.ret = PyBytes(IF call.arg \in {PyBool(TRUE), PyInt(1)} THEN <<1>> ELSE <<0>>)
        ELSE call.err = "TypeError" /\ call.buf.data = <<>>

(***************************************************************************)
(* C13.  History independence in reuse mode: whatever calls came before    *)
(* (on this class or on others, returned or raised part-way), encode(v)    *)
(* returns the bytes and decode(b) the value, or raises the error, that    *)
(* the same call gives as the first call of a newly started process.       *)
(***************************************************************************)
First == IF Encoded THEN Alone(Declared, call.arg) ELSE AloneDecode(Declared, call.arg)

C13_HistoryIndependence ==
    (reuse /\ call.op # "none") => (call.err = First.err /\ call.ret = First.ret)

\* An encode returned (the top-level buffer holds its output) while the
\* scratch buffer still holds what the raising call on the other descriptor
\* left there.
C13_Witness ==
    /\ reuse /\ Encoded /\ call.err = NoErr
    /\ GLOBAL_BUFFER.data = ValueOf(call.ret)
    /\ GLOBAL_BUFFER_SUB.data = Alone(OtherRecord, OtherValue).S.data
    /\ GLOBAL_BUFFER_SUB.data # <<>>

(***************************************************************************)
(* C14.  Scratch isolation in reuse mode: a Set or Map is written as the   *)
(* canonical collection of the standalone encodings of its elements, keys  *)
(* and values, and is read back as the collection of the standalone        *)
(* decodings of its raw entries, whatever the element and value types,     *)
(* a value type that is itself a Map or Set included.                      *)
(***************************************************************************)
\* A state with two empty buffers, and with given bytes in the first.
EmptyState ==
    [heap |-> <<NewBuffer(BUFFER_SIZE), NewBuffer(BUFFER_SIZE)>>, err |-> NoErr,
     val |-> PyNone, global |-> TRUE]
StateWith(data) == write_fixed_array(EmptyState, 1, data)

\* The standalone encodings of the elements of a set value, and of the keys
\* and values of a dict value (a later entry replaces an earlier one with
\* the same key bytes).
StandaloneSet(d, v) ==
    {ValueOf(Alone(d.element_type, ValueOf(v)[i]).ret) : i \in 1..Len(ValueOf(v))}
StandaloneMap(d, v) ==
    LET KeyBytes(i) == ValueOf(Alone(d.key_type, ValueOf(v)[i][1]).ret)
        ValBytes(i) == ValueOf(Alone(d.value_type, ValueOf(v)[i][2]).ret)
        Last(kb) == CHOOSE i \in 1..Len(ValueOf(v)) :
                        /\ KeyBytes(i) = kb
                        /\ \A j \in (i + 1)..Len(ValueOf(v)) : KeyBytes(j) # kb
    IN  [kb \in {KeyBytes(i) : i \in 1..Len(ValueOf(v))} |-> ValBytes(Last(kb))]

\* The standalone decodings of raw entries, collected as the code collects them.
RECURSIVE DecodedSet(_, _, _)
DecodedSet(d, raw, acc) ==
    IF raw = <<>> THEN PySet(acc)
    ELSE DecodedSet(d, Tail(raw),
                    SetAdd(acc, AloneDecode(d.element_type, PyBytes(Head(raw))).ret))
RECURSIVE DecodedMap(_, _, _)
DecodedMap(d, raw, acc) ==
    IF raw = <<>> THEN PyDict(acc)
    ELSE DecodedMap(d, Tail(raw),
                    DictSet(acc, AloneDecode(d.key_type, PyBytes(Head(raw)[1])).ret,
                                 AloneDecode(d.value_type, PyBytes(Head(raw)[2])).ret))

C14_ScratchIsolation ==
    /\ (reuse /\ Encoded /\ Declared.k = "Set" /\ Faults(Declared, call.arg) = {})
          => /\ call.err = NoErr
             /\ ValueOf(call.ret)
                  = write_hashset(EmptyState, 1, StandaloneSet(Declared, call.arg)).heap[1].data
    /\ (reuse /\ Encoded /\ Declared.k = "Map" /\ Faults(Declared, call.arg) = {})
          => /\ call.err = NoErr
             /\ ValueOf(call.ret)
                  = write_hashmap(EmptyState, 1, StandaloneMap(Declared, call.arg)).heap[1].data
    /\ (reuse /\ Decoded /\ Declared.k = "Set" /\ call.err = NoErr)
          => call.ret = DecodedSet(Declared, read_hashset(StateWith(ValueOf(call.arg)), 1).val, <<>>)
    /\ (reuse /\ Decoded /\ Declared.k = "Map" /\ call.err = NoErr)
          => call.ret = DecodedMap(Declared, read_hashmap(StateWith(ValueOf(call.arg)), 1).val, <<>>)

(***************************************************************************)
(* C15.  Mode equivalence: every encode and decode call has the same       *)
(* outcome (the same bytes, the same value, or the same kind of error) in  *)
(* reuse mode as in fresh-allocation mode.                                 *)
(***************************************************************************)
\* The call made in a process of the other buffer mode.
InOtherMode ==
    LET G == IF reuse THEN NoBuffer ELSE NewBuffer(BUFFER_SIZE)
    IN  IF Encoded THEN encode(Instantiate(Declared), ~reuse, G, G, call.arg)
        ELSE decode(Instantiate(Declared), ~reuse, G, G, call.arg)

C15_ModeEquivalence ==
    call.op # "none" => (call.err = InOtherMode.err /\ call.ret = InOtherMode.ret)

(***************************************************************************)
(* C16.  Buffer invariant: every Buffer a call worked on, and both global  *)
(* buffers, satisfy 0 <= offset <= size <= capacity; a capacity is the     *)
(* one the Buffer was created with or at least twice that or at least the  *)
(* size; bytes written before a growth are kept (a Vector longer than its  *)
(* Buffer comes out as its count and its elements); and decode reads from  *)
(* the first supplied byte: its Buffer holds exactly the supplied bytes,   *)
(* and the bytes up to the read cursor decode, alone, to the same value.   *)
(***************************************************************************)
BufferInv(buf) == 0 <= buf.offset /\ buf.offset <= Len(buf.data) /\ Len(buf.data) <= buf.cap
GrownFrom(buf, capacity) == buf.cap = capacity \/ buf.cap >= 2 * capacity

C16_BufferInvariant ==
    /\ \A i \in DOMAIN call.bufs : BufferInv(call.bufs[i])
    /\ BufferInv(GLOBAL_BUFFER) /\ BufferInv(GLOBAL_BUFFER_SUB)
    /\ reuse => GrownFrom(GLOBAL_BUFFER, BUFFER_SIZE) /\ GrownFrom(GLOBAL_BUFFER_SUB, BUFFER_SIZE)
    /\ (~reuse /\ call.op # "none") => GrownFrom(call.buf, InitialSize(Self))
    /\ (Encoded /\ Declared.k = "Vector" /\ Faults(Declared, call.arg) = {})
          => /\ call.err = NoErr
             /\ ValueOf(call.ret) = PadTo(NatBytes(Len(ValueOf(call.arg))), 4)
                                      \o EachAlone(Declared.element, ValueOf(call.arg))
    /\ Decoded
          => /\ call.buf.data = ValueOf(call.arg)
             /\ call.err = NoErr
                   => AloneDecode(Declared,
                                  PyBytes(SubSeq(ValueOf(call.arg), 1, call.buf.offset))).ret
                        = call.ret

\* In reuse mode a decode read its whole input, longer than the capacity the
\* shared buffer was created with, after an earlier decode had left the read
\* cursor inside its own input.
C16_Witness ==
    /\ reuse /\ Decoded /\ call.err = NoErr
    /\ Len(call.buf.data) > BUFFER_SIZE /\ call.buf.offset = Len(call.buf.data)
    /\ call.buf.cap >= 2 * BUFFER_SIZE
    /\ prev.op = "decode" /\ prev.buf.offset > 0

(***************************************************************************)
(* C17.  Record.sizeof(): unknown when exact_size was requested and some   *)
(* field reports unknown; otherwise the sum of the sizes of the fields     *)
(* that report a fixed size, the other fields skipped; and no encoding of  *)
(* the Record is shorter than that sum.  Stated for the declared record    *)
(* and every record nested in the declared descriptor.                     *)
(***************************************************************************)
\* The sum of the sizes the fields at the given places report.
RECURSIVE SumOfSizes(_, _)
SumOfSizes(d, places) ==
    IF places = {} THEN 0
    ELSE LET i == CHOOSE i \in places : TRUE
         IN  sizeof(d.fields[i][2]) + SumOfSizes(d, places \ {i})

UnknownFields(d) == {i \in 1..Len(d.fields) : sizeof(d.fields[i][2]) = SizeNone}

C17_RecordSizeof ==
    /\ \A d \in {p \in Parts(Declared) : p.k = "Schema"} :
          sizeof(d) = IF d.exact_size /\ UnknownFields(d) # {} THEN SizeNone
                      ELSE SumOfSizes(d, (1..Len(d.fields)) \ UnknownFields(d))
    /\ (Declared.k = "Schema" /\ Encoded /\ call.err = NoErr /\ sizeof(Declared) # SizeNone)
          => Len(ValueOf(call.ret)) >= sizeof(Declared)

\* A record built without exact_size, with a field of unknown size among
\* fields of fixed size, was encoded to more bytes than it reports.
C17_Witness ==
    /\ Declared.k = "Schema" /\ ~Declared.exact_size /\ UnknownFields(Declared) # {}
    /\ Encoded /\ call.err = NoErr
    /\ sizeof(Declared) > 0 /\ Len(ValueOf(call.ret)) > sizeof(Declared)

(***************************************************************************)
(* C18.  Size exactness: when sizeof() of an Array, a Padding or an        *)
(* exact_size Record is a number s, every successful encode under it is    *)
(* exactly s bytes long; and a Padding exists only over an inner type      *)
(* whose encodings all have one length.                                    *)
(***************************************************************************)
\* The descriptors whose encodings all have the same length.
RECURSIVE FixedLength(_)
FixedLength(d) ==
    CASE d.k \in {"Numeric", "Bool", "PubKey", "Padding"} -> TRUE
      [] d.k = "Array" -> d.size = 0 \/ FixedLength(d.element)
      [] d.k = "Schema" -> \A i \in 1..Len(d.fields) : FixedLength(d.fields[i][2])
      [] OTHER -> FALSE

C18_SizeExactness ==
    /\ (/\ Declared.k \in {"Array", "Padding"} \/ (Declared.k = "Schema" /\ Declared.exact_size)
        /\ sizeof(Declared) # SizeNone
        /\ Encoded /\ call.err = NoErr)
          => Len(ValueOf(call.ret)) = sizeof(Declared)
    /\ \A d \in Parts(Declared) : d.k = "Padding" => FixedLength(d.element)

(***************************************************************************)
(* C19.  Buffer release in fresh-allocation mode: when encode or decode    *)
(* has returned or raised, every Buffer the call created (its own and the  *)
(* temporary ones of Set and Map entries) has been freed.                  *)
(***************************************************************************)
C19_BufferRelease ==
    (~reuse /\ call.op # "none")
       => /\ call.unfreed = 0
          /\ \A i \in 3..Len(call.bufs) : call.bufs[i].freed

(***************************************************************************)
(* C20.  Fresh-allocation isolation: of two encode/decode calls of two     *)
(* threads in fresh mode, interleaved between their Buffer operations,     *)
(* each returns or raises what the same call does alone; the Buffers the   *)
(* two calls hold are different objects; and the singleton a call took at  *)
(* its start is its class's singleton, unchanged, for as long as it runs.  *)
(***************************************************************************)
Finished(t) == threads[t].pc \in {"returned", "raised"}

\* The same call in a process that makes no other.
AloneCall(th) ==
    IF th.op = "encode" THEN Alone(ConcClasses[th.cls], th.arg)
                        ELSE AloneDecode(ConcClasses[th.cls], th.arg)

\* The Buffers a running call holds.
Held(t) ==
    IF threads[t].pc \in {"idle", "returned", "raised"} THEN {}
    ELSE {threads[t].buf}
           \cup (IF threads[t].pc \in {"tmp_serialize", "tmp_bytes"} THEN {threads[t].tmp_buf} ELSE {})

C20_FreshIsolation ==
    /\ \A t \in Threads :
          Finished(t) => /\ threads[t].err = AloneCall(threads[t]).err
                         /\ threads[t].ret = AloneCall(threads[t]).ret
    /\ Held(1) \cap Held(2) = {}
    /\ \A t \in Threads :
          threads[t].pc # "idle"
             => /\ singletons[threads[t].cls] = threads[t].self
                /\ threads[t].self = Instantiate(ConcClasses[threads[t].cls])

\* Both calls are on the same class and returned, and the second thread made
\* its Buffer between the first thread's Buffer and the last temporary one
\* of the first thread's Set.
C20_Witness ==
    /\ threads[1].pc = "returned" /\ threads[2].pc = "returned"
    /\ threads[1].cls = threads[2].cls
    /\ threads[1].op = "encode" /\ threads[1].self.k = "Set"
    /\ threads[1].buf < threads[2].buf
    /\ threads[2].buf < threads[1].tmp_buf

(***************************************************************************)
(* C21.  Count prefix of Set and Map: the count a successful encode writes *)
(* is the number of entries that follow it to the end of the output, is    *)
(* the number of distinct byte strings the elements (keys) serialize to,   *)
(* and is at most the number of input entries; where several keys of the   *)
(* input serialize to the same bytes, the one entry written for them       *)
(* carries the value of the last of them in iteration order; and a         *)
(* successful decode has read as many entries as the count of its input    *)
(* says, and returns no more than that many.                               *)
(***************************************************************************)
CountOf(bs) == U32Nat(SubSeq(bs, 1, 4))
PerEntry(d) == IF d.k = "Map" THEN 2 ELSE 1

\* The length-prefixed byte strings from offset `at` to the end of bs, and
\* whether they fill it exactly.
RECURSIVE Written(_, _)
Written(bs, at) ==
    IF at = Len(bs) THEN [whole |-> TRUE, entries |-> <<>>]
    ELSE IF Len(bs) - at < 4 THEN [whole |-> FALSE, entries |-> <<>>]
    ELSE LET n == U32Nat(SubSeq(bs, at + 1, at + 4))
         IN  IF Len(bs) - at - 4 < n THEN [whole |-> FALSE, entries |-> <<>>]
             ELSE [whole |-> Written(bs, at + 4 + n).whole,
                   entries |-> <<SubSeq(bs, at + 5, at + 4 + n)>>
                                  \o Written(bs, at + 4 + n).entries]

\* The offset behind n length-prefixed byte strings that start at `at`.
RECURSIVE EndOf(_, _, _)
EndOf(bs, at, n) ==
    IF n = 0 THEN at ELSE EndOf(bs, at + 4 + U32Nat(SubSeq(bs, at + 1, at + 4)), n - 1)

\* The bytes the i-th element (key) of a Set (Map) value serializes to.
KeyString(d, v, i) ==
    IF d.k = "Set" THEN ValueOf(Alone(d.element_type, ValueOf(v)[i]).ret)
    ELSE ValueOf(Alone(d.key_type, ValueOf(v)[i][1]).ret)

\* The key byte strings that more than one key of the input serializes to.
Collided(d, v) ==
    {KeyString(d, v, i) : i \in {j \in 1..Len(ValueOf(v)) :
        \E h \in 1..Len(ValueOf(v)) : h # j /\ KeyString(d, v, h) = KeyString(d, v, j)}}

C21_CountPrefix ==
    /\ (Encoded /\ call.err = NoErr /\ Declared.k \in {"Set", "Map"})
          => LET out == ValueOf(call.ret)
                 w == Written(out, 4)
                 n == Len(ValueOf(call.arg))
             IN  /\ w.whole
                 /\ Len(w.entries) = CountOf(out) * PerEntry(Declared)
                 /\ CountOf(out) = Cardinality({KeyString(Declared, call.arg, i) : i \in 1..n})
                 /\ CountOf(out) <= n
                 /\ Declared.k = "Map"
                       => \A e \in 1..CountOf(out) :
                             w.entries[2 * e - 1] \in Collided(Declared, call.arg)
                                => w.entries[2 * e]
                                     = StandaloneMap(Declared, call.arg)[w.entries[2 * e - 1]]
    /\ (Decoded /\ call.err = NoErr /\ Declared.k \in {"Set", "Map"})
          => LET data == ValueOf(call.arg)
             IN  /\ call.buf.offset = EndOf(data, 4, CountOf(data) * PerEntry(Declared))
                 /\ Len(ValueOf(call.ret)) <= CountOf(data)

\* A Map of two keys that are the two forms of one PubKey was encoded: one
\* entry, with the value of the later key.
C21_Witness ==
    /\ Encoded /\ call.err = NoErr /\ Declared.k = "Map"
    /\ Len(ValueOf(call.arg)) = 2
    /\ CountOf(ValueOf(call.ret)) = 1
    /\ Collided(Declared, call.arg) # {}

(***************************************************************************)
(* C22.  Truncated input: a decode whose input ends before the bytes its   *)
(* descriptor has to read raises TruncatedInputError; and in reuse mode,   *)
(* whatever the earlier calls left in the shared buffer, a decode leaves   *)
(* it holding the bytes of its input and no others, with the read cursor   *)
(* inside them, and returns or raises what the same decode does in a newly *)
(* started process.                                                        *)
(***************************************************************************)
Short == 0 - 1

\* The offset behind n bytes at `at`, and behind a length-prefixed byte
\* string at `at`; Short when bs ends before.
Take(bs, at, n) == IF at = Short \/ Len(bs) - at < n THEN Short ELSE at + n
TakeVec(bs, at) ==
    IF Take(bs, at, 4) = Short THEN Short
    ELSE Take(bs, at + 4, U32Nat(SubSeq(bs, at + 1, at + 4)))

\* The offset behind the bytes descriptor d reads from bs at `at`; Short when
\* bs ends before.  The entries of a Set or Map are read as byte strings and
\* each must hold what its element, key or value reads.
RECURSIVE Reads(_, _, _)
RECURSIVE ReadsN(_, _, _, _)
RECURSIVE ReadsFields(_, _, _)
RECURSIVE ReadsEntries(_, _, _, _, _)
Reads(d, bs, at) ==
    IF at = Short THEN Short
    ELSE CASE d.k = "Numeric" -> Take(bs, at, d.bits \div 8)
           [] d.k = "Bool" -> Take(bs, at, 1)
           [] d.k = "PubKey" -> Take(bs, at, PUBKEY_SIZE)
           [] d.k = "Padding" -> Take(bs, at, d.element_size)
           [] d.k \in {"String", "Bytes"} -> TakeVec(bs, at)
           [] d.k = "Optional" ->
                IF Take(bs, at, 1) = Short THEN Short
                ELSE IF bs[at + 1] # 0 THEN Reads(d.element, bs, at + 1) ELSE at + 1
           [] d.k = "Vector" ->
                IF Take(bs, at, 4) = Short THEN Short
                ELSE ReadsN(d.element, bs, at + 4, U32Nat(SubSeq(bs, at + 1, at + 4)))
           [] d.k = "Array" -> ReadsN(d.element, bs, at, d.size)
           [] d.k = "Schema" -> ReadsFields(d.fields, bs, at)
           [] d.k \in {"Set", "Map"} ->
                IF Take(bs, at, 4) = Short THEN Short
                ELSE ReadsEntries(d, bs, at + 4,
                                  U32Nat(SubSeq(bs, at + 1, at + 4)) * PerEntry(d), 1)

ReadsN(element, bs, at, n) ==
    IF at = Short THEN Short
    ELSE IF n = 0 THEN at
    ELSE ReadsN(element, bs, Reads(element, bs, at), n - 1)

ReadsFields(fields, bs, at) ==
    IF at = Short THEN Short
    ELSE IF fields = <<>> THEN at
    ELSE ReadsFields(Tail(fields), bs, Reads(Head(fields)[2], bs, at))

ReadsEntries(d, bs, at, n, i) ==
    IF at = Short THEN Short
    ELSE IF n = 0 THEN at
    ELSE LET end == TakeVec(bs, at)
             type == IF d.k = "Set" THEN d.element_type
                     ELSE IF i % 2 = 1 THEN d.key_type ELSE d.value_type
         IN  IF end = Short THEN Short
             ELSE IF Reads(type, SubSeq(bs, at + 5, end), 0) = Short THEN Short
             ELSE ReadsEntries(d, bs, end, n - 1, i + 1)

C22_TruncatedInput ==
    /\ (Decoded /\ Reads(Declared, ValueOf(call.arg), 0) = Short)
          => call.err = "TruncatedInputError"
    /\ (Decoded /\ reuse)
          => /\ call.buf.data = ValueOf(call.arg)
             /\ call.buf.offset <= Len(ValueOf(call.arg))
             /\ call.err = AloneDecode(Declared, call.arg).err
             /\ call.ret = AloneDecode(Declared, call.arg).ret

\* In reuse mode a decode of a truncated input raised, and the shared buffer
\* had held a longer payload after the call before it.
C22_Witness ==
    /\ reuse /\ Decoded /\ call.err = "TruncatedInputError"
    /\ Reads(Declared, ValueOf(call.arg), 0) = Short
    /\ prev.op # "none"
    /\ Len(prev.buf.data) > Len(ValueOf(call.arg))

====
